---- MODULE Spec2Model ----
(***************************************************************************)
(* A model of the IB-to-DSR pipeline: the mapping-table parser             *)
(* (src/src/mapping_parser.py), the content matcher                        *)
(* (src/src/content_matcher.py) and stage 2 of the orchestration           *)
(* (src/main.py).                                                          *)
(*                                                                         *)
(* Python strings are modelled as sequences of one-character strings, so   *)
(* that substring tests, regular-expression matches, splitting, stripping  *)
(* and number formatting are computed character by character.              *)
(***************************************************************************)
EXTENDS Integers, Sequences, FiniteSets, TLC

VARIABLES
    \* _parse_pages applied to one cell, and to its own re-serialized result
    pages_str, page_list, reparsed, pages_pc,
    \* _determine_mapping_type applied to one (section reference, notes) pair
    ib_section, notes, mapping_type, type_pc,
    \* parse_mapping_file: the lines of the file, the index of the line the
    \* loop is at, the local dict mappings, self.mapping_dict
    content, line_no, mappings, mapping_dict, parse_pc,
    \* ContentMatcher: self.ib_index, whether self.client is set, the loop of
    \* match_all_fields (fields done, result dict, the three counts), the
    \* requests sent to the gateway and the time spent in rate-limit delays
    \* (tenths of a second)
    ib_index, client, current, matched_content, counts, gateway_log, delays,
    match_pc,
    \* what the resolution of each field did, in the order of the loop: the
    \* calls of _get_section_content and of _get_content_from_pages, the
    \* requests to the gateway, the time slept
    field_trace,
    \* config.API_DELAY_SECONDS as the installation sets it (tenths of a second)
    api_delay_seconds,
    \* the result of the same run on the index with its unreadable page lists
    \* repaired: the run in which no field raises
    ref_matched,
    \* match_content of the pipeline: the matched content written to disk
    saved_content,
    \* validate_extraction applied to one (field name, content) pair: the two
    \* arguments as they are after the call, and the dict it returns
    validate_field, validate_content, validation, validate_pc,
    \* IBIndexer and the index file: the text of the pages, self.sections, the
    \* index create_index returned, the document save_index wrote, the index
    \* json.load read from it; match_all_fields run on both with the same
    \* mapping, client and gateway reply
    extracted_text, indexer_sections, created_index, index_file, loaded_index,
    index_run, created_matched, loaded_matched, index_pc,
    \* a run of main(): the configuration, the files at its paths, the pipeline object, the populator of stage 3
    config, ib_pdf, template_docx, mapping_md, index_json, written, pipeline,
          populator, gateway, stages, exit_code, run_no, pipe_pc

pagesVars == <<pages_str, page_list, reparsed, pages_pc>>
typeVars == <<ib_section, notes, mapping_type, type_pc>>
parseVars == <<content, line_no, mappings, mapping_dict, parse_pc>>
vars == <<pages_str, page_list, reparsed, pages_pc,
          ib_section, notes, mapping_type, type_pc,
          content, line_no, mappings, mapping_dict, parse_pc,
          ib_index, client, current, matched_content, counts, gateway_log,
          delays, match_pc, field_trace, api_delay_seconds, ref_matched,
          saved_content,
          validate_field, validate_content, validation, validate_pc,
          extracted_text, indexer_sections, created_index, index_file,
          loaded_index, index_run, created_matched, loaded_matched, index_pc,
          config, ib_pdf, template_docx, mapping_md, index_json, written, pipeline,
          populator, gateway, stages, exit_code, run_no, pipe_pc>>
matchVars == <<ib_index, client, current, matched_content, counts, gateway_log,
               delays, match_pc, field_trace, api_delay_seconds, ref_matched,
               saved_content>>

validateVars == <<validate_field, validate_content, validation, validate_pc>>

indexVars == <<extracted_text, indexer_sections, created_index, index_file,
               loaded_index, index_run, created_matched, loaded_matched, index_pc>>

pipeVars == <<config, ib_pdf, template_docx, mapping_md, index_json, written, pipeline,
          populator, gateway, stages, exit_code, run_no, pipe_pc>>

(***************************************************************************)
(* Characters and the string builtins the code relies on                   *)
(***************************************************************************)
DigitSeq == <<"0","1","2","3","4","5","6","7","8","9">>
UpperSeq == <<"A","B","C","D","E","F","G","H","I","J","K","L","M",
              "N","O","P","Q","R","S","T","U","V","W","X","Y","Z">>
LowerSeq == <<"a","b","c","d","e","f","g","h","i","j","k","l","m",
              "n","o","p","q","r","s","t","u","v","w","x","y","z">>
Range(f) == {f[i] : i \in DOMAIN f}
Digits == Range(DigitSeq)
UpperLetters == Range(UpperSeq)
LowerLetters == Range(LowerSeq)
\* \s of the re module and the characters str.strip() removes
Whitespace == {" ", "\n", "\t"}
\* \w of the re module
WordChars == Digits \cup UpperLetters \cup LowerLetters \cup {"_"}

SetMin(S) == CHOOSE x \in S : \A y \in S : x <= y
SetMax(S) == CHOOSE x \in S : \A y \in S : y <= x

DigitVal(c) == (CHOOSE i \in 1..10 : DigitSeq[i] = c) - 1

\* str.lower(), one character
LowerChar(c) ==
    IF c \in UpperLetters THEN LowerSeq[CHOOSE i \in 1..26 : UpperSeq[i] = c] ELSE c

\* str.lower()
Lower(s) == [i \in 1..Len(s) |-> LowerChar(s[i])]

\* k in s
Contains(s, k) ==
    \E i \in 1..(Len(s) - Len(k) + 1) : \A j \in 1..Len(k) : s[i + j - 1] = k[j]

\* the k-th smallest element of a set of integers
Kth(S, k) == CHOOSE x \in S : Cardinality({y \in S : y < x}) = k - 1

\* s.split(d) for a one-character delimiter d: the pieces between the
\* occurrences of d
Split(s, d) ==
    LET at == {i \in 1..Len(s) : s[i] = d}
    IN [k \in 1..(Cardinality(at) + 1) |->
           SubSeq(s, Kth(at \cup {0}, k) + 1, Kth(at \cup {Len(s) + 1}, k) - 1)]

\* s.strip(chars)
StripChars(s, cs) ==
    LET keep == {i \in 1..Len(s) : s[i] \notin cs}
    IN IF keep = {} THEN <<>> ELSE SubSeq(s, SetMin(keep), SetMax(keep))

\* s.strip()
Strip(s) == StripChars(s, Whitespace)

\* sep.join(parts)
Join(parts, sep) ==
    LET F[i \in 0..Len(parts)] ==
            IF i = 0 THEN <<>>
            ELSE IF i = 1 THEN parts[1]
                 ELSE F[i-1] \o sep \o parts[i]
    IN F[Len(parts)]

\* the end of the \d+ match that starts at i (greedy: the whole digit run)
DigitRunEnd(s, i) ==
    CHOOSE j \in i..Len(s) :
        /\ \A k \in i..j : s[k] \in Digits
        /\ (j = Len(s) \/ s[j+1] \notin Digits)

\* the position where a \s* match that starts at i ends, plus one
SkipSpaces(s, i) ==
    SetMin({j \in i..(Len(s) + 1) : j = Len(s) + 1 \/ s[j] \notin Whitespace})

\* int(digits)
ToInt(ds) ==
    LET F[i \in 0..Len(ds)] ==
            IF i = 0 THEN 0 ELSE 10 * F[i-1] + DigitVal(ds[i])
    IN F[Len(ds)]

\* str(n) for n >= 0
RECURSIVE IntToStr(_)
IntToStr(n) ==
    IF n < 10 THEN <<DigitSeq[n + 1]>>
    ELSE IntToStr(n \div 10) \o <<DigitSeq[(n % 10) + 1]>>

\* list(range(a, b + 1))
IntRange(a, b) == IF b < a THEN <<>> ELSE [i \in 1..(b - a + 1) |-> a + i - 1]

\* the concatenation of a sequence of sequences (list.extend in a loop)
Flatten(ss) ==
    LET F[i \in 0..Len(ss)] == IF i = 0 THEN <<>> ELSE F[i-1] \o ss[i]
    IN F[Len(ss)]

RECURSIVE SortedList(_)
\* sorted(S) of a set of integers
SortedList(S) ==
    IF S = {} THEN <<>> ELSE <<SetMin(S)>> \o SortedList(S \ {SetMin(S)})

(***************************************************************************)
(* MappingParser._parse_pages                                              *)
(***************************************************************************)
NoMatch == [matched |-> FALSE, start |-> 0, end |-> 0]

\* re.match(r'(\d+)\s*-\s*(\d+)', part): anchored at the start of the piece
RangeMatch(part) ==
    IF Len(part) = 0 \/ part[1] \notin Digits THEN NoMatch
    ELSE LET e1 == DigitRunEnd(part, 1)
             d  == SkipSpaces(part, e1 + 1)
         IN IF d > Len(part) \/ part[d] # "-" THEN NoMatch
            ELSE LET b == SkipSpaces(part, d + 1)
                 IN IF b > Len(part) \/ part[b] \notin Digits THEN NoMatch
                    ELSE [matched |-> TRUE,
                          start |-> ToInt(SubSeq(part, 1, e1)),
                          end |-> ToInt(SubSeq(part, b, DigitRunEnd(part, b)))]

\* re.search(r'\d+', part): the first digit run, if any
FirstDigitRun(part) ==
    LET ds == {i \in 1..Len(part) : part[i] \in Digits}
    IN IF ds = {} THEN <<>> ELSE SubSeq(part, SetMin(ds), DigitRunEnd(part, SetMin(ds)))

\* the body of the loop over the comma-separated pieces: what one piece adds
PartPages(part) ==
    IF Contains(part, <<"-">>)
    THEN IF RangeMatch(part).matched
         THEN IntRange(RangeMatch(part).start, RangeMatch(part).end)
         ELSE <<>>
    ELSE IF FirstDigitRun(part) # <<>> THEN <<ToInt(FirstDigitRun(part))>> ELSE <<>>

\* a mutant of DedupSort: the accumulated list is returned as it is
DedupSortDropped(page_list_) == page_list_

\* sorted(list(set(page_list)))
DedupSort(page_list_) == SortedList(Range(page_list_))

ParsePages(pages_str_) ==
    IF pages_str_ = <<>> \/ pages_str_ = <<"N","/","A">> \/ pages_str_ = <<"-">> THEN <<>>
    ELSE LET parts == Split(pages_str_, ",")
         IN DedupSort(Flatten([i \in 1..Len(parts) |-> PartPages(Strip(parts[i]))]))

\* the result written back as a comma-separated list
Serialize(pages) == Join([i \in 1..Len(pages) |-> IntToStr(pages[i])], <<","," ">>)

(***************************************************************************)
(* MappingParser._determine_mapping_type                                   *)
(***************************************************************************)
UnavailableKeywords ==
    << <<"n","o","t"," ","i","n"," ","i","b">>, <<"e","x","t","e","r","n","a","l"," ","s","o","u","r","c","e">>, <<"s","a","f","e","t","y"," ","d","a","t","a","b","a","s","e">>, <<"c","a","s","e"," ","r","e","p","o","r","t">>,
       <<"r","e","q","u","i","r","e","s"," ","q","u","e","r","y">>, <<"n","o","t"," ","a","v","a","i","l","a","b","l","e">>, <<"n","/","a">> >>

SynthesisKeywords ==
    << <<"s","y","n","t","h","e","s","i","s">>, <<"c","o","m","b","i","n","e">>, <<"s","u","m","m","a","r","i","z","e">>, <<"m","u","l","t","i","p","l","e"," ","s","e","c","t","i","o","n","s">>,
       <<"r","e","w","r","i","t","e">>, <<"a","d","a","p","t">> >>

\* the loop over unavailable_keywords: some keyword is in either lowered cell
UnavailableSignal(section_lower, notes_lower) ==
    \E i \in 1..Len(UnavailableKeywords) :
        \/ Contains(section_lower, UnavailableKeywords[i])
        \/ Contains(notes_lower, UnavailableKeywords[i])

\* the loop over synthesis_keywords: some keyword is in the lowered notes
SynthesisSignal(notes_lower) ==
    \E i \in 1..Len(SynthesisKeywords) : Contains(notes_lower, SynthesisKeywords[i])

\* a mutant of MultipleSections: "and" is looked for in the cell as written
MultipleSectionsCaseSensitive(ib_section_, section_lower) ==
    \/ Contains(ib_section_, <<"+">>)
    \/ Contains(ib_section_, <<",">>)
    \/ Contains(ib_section_, <<"a","n","d">>)

\* '+' in ib_section or ',' in ib_section or 'and' in section_lower
MultipleSections(ib_section_, section_lower) ==
    \/ Contains(ib_section_, <<"+">>)
    \/ Contains(ib_section_, <<",">>)
    \/ Contains(section_lower, <<"a","n","d">>)

\* a mutant of DetermineMappingType: the synthesis checks come first
DetermineMappingTypeSynthesisFirst(ib_section_, notes_) ==
    IF SynthesisSignal(Lower(notes_)) THEN "synthesis_required"
    ELSE IF MultipleSections(ib_section_, Lower(ib_section_)) THEN "synthesis_required"
    ELSE IF UnavailableSignal(Lower(ib_section_), Lower(notes_)) THEN "unavailable"
    ELSE "direct_extract"

DetermineMappingType(ib_section_, notes_) ==
    IF UnavailableSignal(Lower(ib_section_), Lower(notes_)) THEN "unavailable"
    ELSE IF SynthesisSignal(Lower(notes_)) THEN "synthesis_required"
    ELSE IF MultipleSections(ib_section_, Lower(ib_section_)) THEN "synthesis_required"
    ELSE "direct_extract"

(***************************************************************************)
(* MappingParser.parse_mapping_file                                        *)
(***************************************************************************)
\* table_row_pattern.match(line), r'\|([^|]+)\|([^|]+)\|([^|]+)\|([^|]*)\|':
\* the line starts with a bar, has at least five bars, and the first three
\* cells are not empty (the fourth may be)
RowMatches(line) ==
    LET parts == Split(line, "|")
    IN /\ Len(parts) >= 6
       /\ parts[1] = <<>>
       /\ parts[2] # <<>>
       /\ parts[3] # <<>>
       /\ parts[4] # <<>>

\* match.group(n).strip()
Cell(line, n) == Strip(Split(line, "|")[n + 1])

HeaderLabels == { <<"D","S","R"," ","T","e","m","p","l","a","t","e"," ","F","i","e","l","d">>, <<"D","S","R"," ","F","i","e","l","d">>, <<"-","-","-">>, <<>> }

\* the two tests that skip header rows and separator rows
SkippedAsHeader(field) ==
    \/ field \in HeaderLabels
    \/ Contains(field, <<"-","-","-">>)
    \/ Contains(field, <<"=","=","=">>)

\* [A-Z0-9_]
TokenChars == UpperLetters \cup Digits \cup {"_"}

InsertPrefix == <<"[","I","N","S","E","R","T","_">>

\* the end of the match of \[INSERT_[A-Z0-9_]+\] that starts at i, 0 if none
PlaceholderEnd(field, i) ==
    IF i + Len(InsertPrefix) > Len(field)
       \/ SubSeq(field, i, i + Len(InsertPrefix) - 1) # InsertPrefix
       \/ field[i + Len(InsertPrefix)] \notin TokenChars
    THEN 0
    ELSE LET b == i + Len(InsertPrefix)
             e == CHOOSE j \in b..Len(field) :
                      /\ \A k \in b..j : field[k] \in TokenChars
                      /\ (j = Len(field) \/ field[j+1] \notin TokenChars)
         IN IF e < Len(field) /\ field[e + 1] = "]" THEN e + 1 ELSE 0

\* re.search(r'\[INSERT_[A-Z0-9_]+\]', field).group(0): the leftmost match,
\* <<>> when there is none
FindPlaceholder(field) ==
    LET starts == {i \in 1..Len(field) : PlaceholderEnd(field, i) > 0}
    IN IF starts = {} THEN <<>>
       ELSE SubSeq(field, SetMin(starts), PlaceholderEnd(field, SetMin(starts)))

\* the places where k occurs in s
Occurrences(s, k) ==
    {i \in 1..(Len(s) - Len(k) + 1) : SubSeq(s, i, i + Len(k) - 1) = k}

RECURSIVE RemoveAll(_, _)
\* s.replace(k, '') for a non-empty k: the occurrences are removed from left
\* to right
RemoveAll(s, k) ==
    IF Occurrences(s, k) = {} THEN s
    ELSE SubSeq(s, 1, SetMin(Occurrences(s, k)) - 1)
         \o RemoveAll(SubSeq(s, SetMin(Occurrences(s, k)) + Len(k), Len(s)), k)

\* the dict stored for a data row
RowRecord(line) ==
    LET field == Cell(line, 1)
    IN [field_description |->
            StripChars(RemoveAll(field, FindPlaceholder(field)), {" ", "-", ":"}),
        ib_section |-> Cell(line, 2),
        ib_pages |-> ParsePages(Cell(line, 3)),
        mapping_type |-> DetermineMappingType(Cell(line, 2), Cell(line, 4)),
        notes |-> Cell(line, 4)]

\* whether the loop body stores a mapping for the line
RowContributes(line) ==
    /\ RowMatches(line)
    /\ ~SkippedAsHeader(Cell(line, 1))
    /\ FindPlaceholder(Cell(line, 1)) # <<>>

\* the keys of a dict, in insertion order
Keys(d) == [i \in 1..Len(d) |-> d[i].key]

\* a mutant of DictSet: a key that is present keeps its first value
DictSetFirstWins(d, k, v) ==
    IF \E i \in 1..Len(d) : d[i].key = k THEN d
    ELSE Append(d, [key |-> k, value |-> v])

\* d[k] = v on a dict kept in insertion order: a key that is present keeps
\* its place and takes the new value, a new key goes to the end
DictSet(d, k, v) ==
    IF \E i \in 1..Len(d) : d[i].key = k
    THEN [i \in 1..Len(d) |-> IF d[i].key = k THEN [key |-> k, value |-> v] ELSE d[i]]
    ELSE Append(d, [key |-> k, value |-> v])

\* d[k]
DictGet(d, k) == d[CHOOSE i \in 1..Len(d) : d[i].key = k].value

(***************************************************************************)
(* ContentMatcher: results of calls that may raise                         *)
(***************************************************************************)
\* a call that returned v
Ok(v) == [exc |-> FALSE, val |-> v]

\* a call that raised an exception whose str() is msg
Raise(msg) == [exc |-> TRUE, val |-> msg]

\* str(e) of the TypeError of page_numbers[:3] when page_numbers is None
NotSubscriptable == <<"'","N","o","n","e","T","y","p","e","'"," ","o","b","j","e","c","t"," ","i","s"," ","n","o","t"," ","s","u","b","s","c","r","i","p","t","a","b","l","e">>

\* _get_content_from_pages keeps the first 3 pages
PageLimit == 3
\* ai_extract keeps the first 10000 characters of the source
SourceLimit == 10000
\* ai_extract shows the first 500 characters of the source after a failure
ExcerptLimit == 500

\* time.sleep(0.5) after a completion, in tenths of a second
RateLimitSleep == 5
\* config.API_DELAY_SECONDS = 0.5, in tenths of a second
API_DELAY_SECONDS == 5

\* s[:n]
Prefix(s, n) == SubSeq(s, 1, IF Len(s) < n THEN Len(s) ELSE n)

(***************************************************************************)
(* ContentMatcher._extract_section_numbers                                 *)
(***************************************************************************)
RECURSIVE ChainEnds(_, _)
\* the places where \d+(?:\.\d+)* can end when its first digit run ends at e
ChainEnds(s, e) ==
    {e} \cup (IF e + 2 <= Len(s) /\ s[e+1] = "." /\ s[e+2] \in Digits
              THEN ChainEnds(s, DigitRunEnd(s, e + 2))
              ELSE {})

\* the end of the match of \b(\d+(?:\.\d+)*)\b that starts at i, 0 if none:
\* a word boundary before the first digit, the longest chain that ends at a
\* word boundary
TokenEnd(s, i) ==
    IF s[i] \notin Digits \/ (i > 1 /\ s[i-1] \in WordChars) THEN 0
    ELSE LET ends == {e \in ChainEnds(s, DigitRunEnd(s, i)) :
                         e = Len(s) \/ s[e+1] \notin WordChars}
         IN IF ends = {} THEN 0 ELSE SetMax(ends)

RECURSIVE FindTokensFrom(_, _)
\* re.findall from position i on: the leftmost match, then on after its end
FindTokensFrom(s, i) ==
    LET starts == {j \in i..Len(s) : TokenEnd(s, j) > 0}
    IN IF starts = {} THEN <<>>
       ELSE <<SubSeq(s, SetMin(starts), TokenEnd(s, SetMin(starts)))>>
            \o FindTokensFrom(s, TokenEnd(s, SetMin(starts)) + 1)

ExtractSectionNumbers(ib_section_) == FindTokensFrom(ib_section_, 1)

(***************************************************************************)
(* ContentMatcher._get_content_from_pages, _get_section_content            *)
(***************************************************************************)
\* f"[Content from page {p}]"
PageContent(p) == <<"[","C","o","n","t","e","n","t"," ","f","r","o","m"," ","p","a","g","e"," ">> \o IntToStr(p) \o <<"]">>

GetContentFromPages(page_numbers) ==
    [i \in 1..Len(Prefix(page_numbers, PageLimit)) |-> PageContent(page_numbers[i])]

\* pages = node.get('pages', []); content = self._get_content_from_pages(pages):
\* a page list that is null in the index file cannot be sliced
NodeContent(node) ==
    IF node.pages_type = "list" THEN Ok(GetContentFromPages(node.pages))
    ELSE Raise(NotSubscriptable)

\* f"{title}\n\n" + "\n\n".join(content)
Headed(title, parts) == title \o <<"\n","\n">> \o Join(parts, <<"\n","\n">>)

HasKey(d, k) == \E i \in 1..Len(d) : d[i].key = k

RECURSIVE SectionScan(_, _, _)
\* the loop of _get_section_content from the i-th top-level section on
SectionScan(sections, section_number, i) ==
    IF i > Len(sections) THEN Ok(<<>>)
    ELSE LET top == sections[i]
             own == IF top.key = section_number THEN NodeContent(top.value)
                    ELSE Ok(<<>>)
         IN IF own.exc THEN own
            ELSE IF own.val # <<>> THEN Ok(Headed(top.value.title, own.val))
            ELSE IF HasKey(top.value.subsections, section_number)
                 THEN LET sub == DictGet(top.value.subsections, section_number)
                      IN IF NodeContent(sub).exc THEN NodeContent(sub)
                         ELSE IF NodeContent(sub).val # <<>>
                              THEN Ok(Headed(sub.title, NodeContent(sub).val))
                              ELSE SectionScan(sections, section_number, i + 1)
                 ELSE SectionScan(sections, section_number, i + 1)

GetSectionContent(index, section_number) ==
    SectionScan(index.sections, section_number, 1)

(***************************************************************************)
(* ContentMatcher._clean_text                                              *)
(***************************************************************************)
\* re.sub(r'\s+', ' ', text): every run of whitespace becomes one space
CollapseWhitespace(text) ==
    LET marked == [i \in 1..Len(text) |->
                      IF text[i] \notin Whitespace THEN text[i]
                      ELSE IF i > 1 /\ text[i-1] \in Whitespace THEN "" ELSE " "]
        Kept(c) == c # ""
    IN SelectSeq(marked, Kept)

\* the end of the match of 'Page \d+ of \d+' that starts at i, 0 if none
FooterEnd(s, i) ==
    IF i + 5 > Len(s) \/ SubSeq(s, i, i + 4) # <<"P","a","g","e"," ">> \/ s[i+5] \notin Digits THEN 0
    ELSE LET e == DigitRunEnd(s, i + 5)
         IN IF e + 5 > Len(s) \/ SubSeq(s, e + 1, e + 4) # <<" ","o","f"," ">> \/ s[e+5] \notin Digits
            THEN 0
            ELSE DigitRunEnd(s, e + 5)

RECURSIVE RemoveFooters(_)
\* re.sub(r'Page \d+ of \d+', '', text)
RemoveFooters(s) ==
    LET starts == {i \in 1..Len(s) : FooterEnd(s, i) > 0}
    IN IF starts = {} THEN s
       ELSE SubSeq(s, 1, SetMin(starts) - 1)
            \o RemoveFooters(SubSeq(s, FooterEnd(s, SetMin(starts)) + 1, Len(s)))

\* a mutant of CleanText: runs of whitespace are kept as they are
CleanTextKeepRuns(text) ==
    IF text = <<>> THEN <<>> ELSE Strip(RemoveFooters(text))

CleanText(text) ==
    IF text = <<>> THEN <<>> ELSE Strip(RemoveFooters(CollapseWhitespace(text)))

(***************************************************************************)
(* ContentMatcher.direct_extract, ai_extract, handle_unavailable_field     *)
(***************************************************************************)
NotFound == <<"[","C","o","n","t","e","n","t"," ","n","o","t"," ","f","o","u","n","d"," ","i","n"," ","I","B","]">>
AiSkipped == <<"[","A","I"," ","e","x","t","r","a","c","t","i","o","n"," ","s","k","i","p","p","e","d"," ","-"," ","n","o"," ","A","P","I"," ","k","e","y"," ","p","r","o","v","i","d","e","d","]">>
NoSource == <<"[","N","o"," ","s","o","u","r","c","e"," ","c","o","n","t","e","n","t"," ","f","o","u","n","d"," ","i","n"," ","I","B"," ","f","o","r"," ","A","I"," ","e","x","t","r","a","c","t","i","o","n","]">>

RECURSIVE SectionParts(_, _, _, _)
\* the loop over section_numbers from the i-th token on: the content of every
\* token that resolves, under "### Section <n>" when headed (ai_extract)
SectionParts(index, tokens, i, headed) ==
    IF i > Len(tokens) THEN Ok(<<>>)
    ELSE LET here == GetSectionContent(index, tokens[i])
         IN IF here.exc THEN here
            ELSE LET rest == SectionParts(index, tokens, i + 1, headed)
                 IN IF rest.exc THEN rest
                    ELSE IF here.val = <<>> THEN rest
                    ELSE Ok(<< IF headed
                               THEN <<"#","#","#"," ","S","e","c","t","i","o","n"," ">> \o tokens[i] \o <<"\n">> \o here.val
                               ELSE here.val >> \o rest.val)

\* a mutant of SourceParts: the field's own pages are never used
SourcePartsNoFallback(index, mapping_info, headed) ==
    SectionParts(index, ExtractSectionNumbers(mapping_info.ib_section), 1, headed)

\* the content parts of a field: the resolved sections, else the field's pages
SourceParts(index, mapping_info, headed) ==
    LET found == SectionParts(index, ExtractSectionNumbers(mapping_info.ib_section),
                              1, headed)
    IN IF found.exc THEN found
       ELSE IF found.val = <<>> /\ mapping_info.ib_pages # <<>>
            THEN Ok(GetContentFromPages(mapping_info.ib_pages))
            ELSE found

RECURSIVE ScanFetches(_, _, _)
\* the number of calls of _get_content_from_pages that _get_section_content
\* makes from the i-th top-level section on
ScanFetches(sections, section_number, i) ==
    IF i > Len(sections) THEN 0
    ELSE LET top == sections[i]
             own == IF top.key = section_number THEN 1 ELSE 0
         IN IF own = 1 /\ (NodeContent(top.value).exc \/ NodeContent(top.value).val # <<>>)
            THEN own
            ELSE IF HasKey(top.value.subsections, section_number)
                 THEN LET sub == NodeContent(DictGet(top.value.subsections, section_number))
                      IN IF sub.exc \/ sub.val # <<>> THEN own + 1
                         ELSE own + 1 + ScanFetches(sections, section_number, i + 1)
                 ELSE own + ScanFetches(sections, section_number, i + 1)

NoTrace == [sections |-> 0, pages |-> 0]

RECURSIVE PartsTrace(_, _, _)
\* the calls made by the loop over section_numbers from the i-th token on: it
\* ends at the first token whose lookup raises
PartsTrace(index, tokens, i) ==
    IF i > Len(tokens) THEN NoTrace
    ELSE IF GetSectionContent(index, tokens[i]).exc
         THEN [sections |-> 1, pages |-> ScanFetches(index.sections, tokens[i], 1)]
         ELSE [sections |-> 1 + PartsTrace(index, tokens, i + 1).sections,
               pages |-> ScanFetches(index.sections, tokens[i], 1)
                         + PartsTrace(index, tokens, i + 1).pages]

\* the calls made while the content parts of a field are collected
SourceTrace(index, mapping_info) ==
    LET tokens == ExtractSectionNumbers(mapping_info.ib_section)
        found == SectionParts(index, tokens, 1, FALSE)
        trace == PartsTrace(index, tokens, 1)
    IN IF ~found.exc /\ found.val = <<>> /\ mapping_info.ib_pages # <<>>
       THEN [trace EXCEPT !.pages = @ + 1]
       ELSE trace

\* a mutant of PageListAfter: the list is cut to its first PageLimit
\* elements in place
PageListClipped(page_numbers) == Prefix(page_numbers, PageLimit)

\* the list passed to _get_content_from_pages, after the call: the slice
\* page_numbers[:3] is a new list, the argument keeps its elements
PageListAfter(page_numbers) == page_numbers

RECURSIVE ScanReached(_, _, _)
\* the nodes whose page lists _get_section_content passes on, from the i-th
\* top-level section on: <<t, 0>> for the t-th top-level node, <<t, n>> for
\* its n-th subsection
ScanReached(sections, section_number, i) ==
    IF i > Len(sections) THEN {}
    ELSE LET top == sections[i]
             own == IF top.key = section_number THEN {<<i, 0>>} ELSE {}
         IN IF own # {} /\ (NodeContent(top.value).exc \/ NodeContent(top.value).val # <<>>)
            THEN own
            ELSE IF HasKey(top.value.subsections, section_number)
                 THEN LET n == CHOOSE m \in 1..Len(top.value.subsections) :
                                   top.value.subsections[m].key = section_number
                          sub == NodeContent(top.value.subsections[n].value)
                      IN IF sub.exc \/ sub.val # <<>> THEN own \cup {<<i, n>>}
                         ELSE own \cup {<<i, n>>}
                              \cup ScanReached(sections, section_number, i + 1)
                 ELSE own \cup ScanReached(sections, section_number, i + 1)

RECURSIVE PartsReached(_, _, _)
\* the nodes reached by the loop over section_numbers from the i-th token
\* on: the loop ends at the first token whose lookup raises
PartsReached(index, tokens, i) ==
    IF i > Len(tokens) THEN {}
    ELSE IF GetSectionContent(index, tokens[i]).exc
         THEN ScanReached(index.sections, tokens[i], 1)
         ELSE ScanReached(index.sections, tokens[i], 1)
              \cup PartsReached(index, tokens, i + 1)

\* the field is resolved by direct_extract or by ai_extract past its test
\* of the client: its sources are looked up
LooksUp(has_client, mapping_info) ==
    \/ mapping_info.mapping_type = "direct_extract"
    \/ mapping_info.mapping_type = "synthesis_required" /\ has_client

\* self.ib_index after the resolution of a field: the page lists of the
\* nodes that were reached have been through _get_content_from_pages
IndexAfterResolve(index, has_client, mapping_info) ==
    IF ~LooksUp(has_client, mapping_info) THEN index
    ELSE [index EXCEPT !.sections =
            [t \in 1..Len(index.sections) |->
                [key |-> index.sections[t].key,
                 value |->
                    [index.sections[t].value EXCEPT
                        !.pages =
                            IF <<t, 0>> \in PartsReached(index,
                                   ExtractSectionNumbers(mapping_info.ib_section), 1)
                               /\ index.sections[t].value.pages_type = "list"
                            THEN PageListAfter(@) ELSE @,
                        !.subsections =
                            [n \in 1..Len(index.sections[t].value.subsections) |->
                                [key |-> index.sections[t].value.subsections[n].key,
                                 value |->
                                    [index.sections[t].value.subsections[n].value EXCEPT
                                        !.pages =
                                            IF <<t, n>> \in PartsReached(index,
                                                   ExtractSectionNumbers(mapping_info.ib_section), 1)
                                               /\ index.sections[t].value.subsections[n].value.pages_type = "list"
                                            THEN PageListAfter(@) ELSE @]]]]]]]

\* mapping_info after the resolution of its field: its own page list has
\* been through _get_content_from_pages when no section resolved
MappingInfoAfterResolve(index, has_client, mapping_info) ==
    IF /\ LooksUp(has_client, mapping_info)
       /\ ~SourcePartsNoFallback(index, mapping_info, FALSE).exc
       /\ SourcePartsNoFallback(index, mapping_info, FALSE).val = <<>>
       /\ mapping_info.ib_pages # <<>>
    THEN [mapping_info EXCEPT !.ib_pages = PageListAfter(@)]
    ELSE mapping_info

\* what a field's resolution gives: it raised or returned (exc, val), the
\* requests it sent to the gateway, the time it slept, the lookups it made
Outcome(r, requests_, sleeps_, trace_) ==
    [exc |-> r.exc, val |-> r.val, requests |-> requests_, sleeps |-> sleeps_,
     sections |-> trace_.sections, pages |-> trace_.pages]

\* a mutant of DirectExtract: the content of the field's own pages follows
\* the sections that resolved
DirectExtractPagesToo(index, field_name, mapping_info) ==
    LET parts == SourceParts(index, mapping_info, FALSE)
        trace == SourceTrace(index, mapping_info)
    IN IF parts.exc THEN Outcome(parts, <<>>, 0, trace)
       ELSE IF parts.val # <<>>
            THEN Outcome(Ok(CleanText(Join(
                     IF SourcePartsNoFallback(index, mapping_info, FALSE).val # <<>>
                        /\ mapping_info.ib_pages # <<>>
                     THEN parts.val \o GetContentFromPages(mapping_info.ib_pages)
                     ELSE parts.val, <<"\n","\n">>))), <<>>, 0, trace)
            ELSE Outcome(Ok(NotFound), <<>>, 0, trace)

DirectExtract(index, field_name, mapping_info) ==
    LET parts == SourceParts(index, mapping_info, FALSE)
        trace == SourceTrace(index, mapping_info)
    IN IF parts.exc THEN Outcome(parts, <<>>, 0, trace)
       ELSE IF parts.val # <<>>
            THEN Outcome(Ok(CleanText(Join(parts.val, <<"\n","\n">>))), <<>>, 0, trace)
            ELSE Outcome(Ok(NotFound), <<>>, 0, trace)

\* a mutant of Truncated: a source of exactly SourceLimit characters is
\* marked as clipped
TruncatedAtLimit(combined_source) ==
    IF Len(combined_source) >= SourceLimit
    THEN Prefix(combined_source, SourceLimit) \o <<"\n","\n","[","C","o","n","t","e","n","t"," ","t","r","u","n","c","a","t","e","d",".",".",".","]">>
    ELSE combined_source

\* combined_source, cut to SourceLimit characters with the truncation marker
Truncated(combined_source) ==
    IF Len(combined_source) > SourceLimit
    THEN Prefix(combined_source, SourceLimit) \o <<"\n","\n","[","C","o","n","t","e","n","t"," ","t","r","u","n","c","a","t","e","d",".",".",".","]">>
    ELSE combined_source

\* the request of _create_extraction_prompt: what it is built from
Request(field_name, mapping_info, source) ==
    [field_name |-> field_name,
     field_description |-> mapping_info.field_description,
     ib_content |-> source,
     context |-> mapping_info.notes]

\* a mutant of AiFailed: the whole source follows the failure message
AiFailedWholeSource(reason, combined_source) ==
    <<"[","A","I"," ","e","x","t","r","a","c","t","i","o","n"," ","f","a","i","l","e","d",":"," ">> \o reason \o <<"]","\n","\n","R","a","w"," ","c","o","n","t","e","n","t",":","\n">>
    \o combined_source \o <<".",".",".">>

\* the except branch of the gateway call
AiFailed(reason, combined_source) ==
    <<"[","A","I"," ","e","x","t","r","a","c","t","i","o","n"," ","f","a","i","l","e","d",":"," ">> \o reason \o <<"]","\n","\n","R","a","w"," ","c","o","n","t","e","n","t",":","\n">>
    \o Prefix(combined_source, ExcerptLimit) \o <<".",".",".">>

\* a mutant of AiExtract: the source is collected before the client is tested
AiExtractLookupFirst(index, has_client, field_name, mapping_info, reply) ==
    LET parts == SourceParts(index, mapping_info, TRUE)
        trace == SourceTrace(index, mapping_info)
    IN IF parts.exc THEN Outcome(parts, <<>>, 0, trace)
       ELSE IF ~has_client THEN Outcome(Ok(AiSkipped), <<>>, 0, trace)
       ELSE IF parts.val = <<>> THEN Outcome(Ok(NoSource), <<>>, 0, trace)
       ELSE LET source == Truncated(Join(parts.val, <<"\n","\n">>))
                request == Request(field_name, mapping_info, source)
            IN IF reply.ok
               THEN Outcome(Ok(Strip(reply.text)), <<request>>, RateLimitSleep, trace)
               ELSE Outcome(Ok(AiFailed(reply.text, source)), <<request>>, 0, trace)

\* a mutant of AiExtract: a field without source content is sent to the
\* gateway with an empty source
AiExtractEmptySource(index, has_client, field_name, mapping_info, reply) ==
    IF ~has_client THEN Outcome(Ok(AiSkipped), <<>>, 0, NoTrace)
    ELSE LET parts == SourceParts(index, mapping_info, TRUE)
             trace == SourceTrace(index, mapping_info)
         IN IF parts.exc THEN Outcome(parts, <<>>, 0, trace)
            ELSE LET source == Truncated(Join(parts.val, <<"\n","\n">>))
                     request == Request(field_name, mapping_info, source)
                 IN IF reply.ok
                    THEN Outcome(Ok(Strip(reply.text)), <<request>>, RateLimitSleep,
                                 trace)
                    ELSE Outcome(Ok(AiFailed(reply.text, source)), <<request>>, 0,
                                 trace)

\* reply: what the gateway does with the request, [ok, text]: the text of the
\* completion, or str() of the exception the call raised
AiExtract(index, has_client, field_name, mapping_info, reply) ==
    IF ~has_client THEN Outcome(Ok(AiSkipped), <<>>, 0, NoTrace)
    ELSE LET parts == SourceParts(index, mapping_info, TRUE)
             trace == SourceTrace(index, mapping_info)
         IN IF parts.exc THEN Outcome(parts, <<>>, 0, trace)
            ELSE IF parts.val = <<>> THEN Outcome(Ok(NoSource), <<>>, 0, trace)
            ELSE LET source == Truncated(Join(parts.val, <<"\n","\n">>))
                     request == Request(field_name, mapping_info, source)
                 IN IF reply.ok
                    THEN Outcome(Ok(Strip(reply.text)), <<request>>, RateLimitSleep,
                                 trace)
                    ELSE Outcome(Ok(AiFailed(reply.text, source)), <<request>>, 0,
                                 trace)

\* mapping_info.get('notes', 'External data source required')
NotesOrDefault(mapping_info) ==
    IF "notes" \in DOMAIN mapping_info THEN mapping_info.notes
    ELSE <<"E","x","t","e","r","n","a","l"," ","d","a","t","a"," ","s","o","u","r","c","e"," ","r","e","q","u","i","r","e","d">>

HandleUnavailableField(field_name, mapping_info) ==
    Outcome(Ok(<<"[","D","A","T","A"," ","N","O","T"," ","A","V","A","I","L","A","B","L","E"," ","I","N"," ","I","B"," ","-"," ","R","E","Q","U","I","R","E","S",":"," ">> \o NotesOrDefault(mapping_info)
               \o <<"]">>),
            <<>>, 0, NoTrace)

\* the try block of match_all_fields: the dispatch on mapping_type
ResolveField(index, has_client, field_name, mapping_info, reply) ==
    IF mapping_info.mapping_type = "direct_extract"
    THEN DirectExtract(index, field_name, mapping_info)
    ELSE IF mapping_info.mapping_type = "synthesis_required"
    THEN AiExtract(index, has_client, field_name, mapping_info, reply)
    ELSE HandleUnavailableField(field_name, mapping_info)

\* a mutant of ErrorContent: the message of the exception is left out
ErrorContentBare(msg) == <<"[","E","R","R","O","R"," ","E","X","T","R","A","C","T","I","N","G"," ","C","O","N","T","E","N","T","]">>

\* f"[ERROR EXTRACTING CONTENT: {str(e)}]"
ErrorContent(msg) == <<"[","E","R","R","O","R"," ","E","X","T","R","A","C","T","I","N","G"," ","C","O","N","T","E","N","T",":"," ">> \o msg \o <<"]">>

\* a mutant of StoreResult: a field that raised is logged and left out
StoreResultUnlessRaised(matched, field_name, r) ==
    IF r.exc THEN matched ELSE DictSet(matched, field_name, r.val)

\* matched_content[field_name] = content, in the try block or in the handler
StoreResult(matched, field_name, r) ==
    DictSet(matched, field_name, IF r.exc THEN ErrorContent(r.val) ELSE r.val)

\* the count the try block adds to after the call returned
CountKey(mapping_type_) ==
    IF mapping_type_ = "direct_extract" THEN "direct"
    ELSE IF mapping_type_ = "synthesis_required" THEN "ai" ELSE "unavailable"

\* a mutant of NewResult: entries of an earlier run are still in the dict
LeftoverResult == << [key |-> <<"[","I","N","S","E","R","T","_","O","L","D","]">>, value |-> NotFound] >>

\* matched_content = {}
NewResult == <<>>

(***************************************************************************)
(* Bounds and input sets                                                   *)
(***************************************************************************)
MaxPieces == 3

\* all sequences over S of length at most n
RECURSIVE SeqsUpTo(_, _)
SeqsUpTo(S, n) ==
    IF n = 0 THEN {<<>>}
    ELSE SeqsUpTo(S, n - 1) \cup
         {Append(q, x) : q \in {p \in SeqsUpTo(S, n - 1) : Len(p) = n - 1}, x \in S}

PagePieces ==
    { <<"3","4","-","3","6">>, <<"4","0">>, <<"7"," ","-"," ","9">>, <<"p",".","5">>, <<"p",".","3","4","-","3","6">>, <<"-","5">>, <<"9","-","7">>, <<"N","/","A">>, <<"-">> }

PageCells == {Join(ps, <<","," ">>) : ps \in SeqsUpTo(PagePieces, MaxPieces)}

MaxSectionFrags == 2

\* all concatenations of at most n fragments of S
Concats(S, n) == {Flatten(q) : q \in SeqsUpTo(S, n)}

SectionFrags ==
    { <<"S","e","c","t","i","o","n"," ","1",".","2">>, <<"+">>, <<",">>, <<" ","A","N","D"," ","5">>, <<"S","t","a","n","d","a","r","d">>, <<"E","x","t","e","r","n","a","l"," ","S","o","u","r","c","e">>,
      <<"N","/">>, <<"A">>, <<"s","u","m","m","a","r","i","z","e">> }

SectionCells == Concats(SectionFrags, MaxSectionFrags)

NotesCells ==
    { <<>>, <<"S","u","m","m","a","r","i","z","e"," ","k","e","y"," ","p","o","i","n","t","s">>, <<"a","d","a","p","t">>, <<"S","e","e"," ","S","y","n","t","h","e","s","i","s">>, <<"C","o","m","b","i","n","e">>,
      <<"R","E","W","R","I","T","E">>, <<"m","u","l","t","i","p","l","e"," ","s","e","c","t","i","o","n","s">>, <<"C","a","s","e"," ","R","e","p","o","r","t","s">>, <<"R","e","q","u","i","r","e","s"," ","q","u","e","r","y">>,
      <<"r","e","q","u","i","r","e","s"," "," ","q","u","e","r","y">>, <<"N","o","t"," ","A","v","a","i","l","a","b","l","e">>, <<"N","o","t"," ","i","n"," ","I","B">>, <<"S","a","f","e","t","y"," ","D","a","t","a","b","a","s","e">>,
      <<"v","e","r","b","a","t","i","m"," ","a","n","d",","," ","+">>, <<"N","/","A">> }

MaxLines == 2

RowIndication == <<"|"," ","[","I","N","S","E","R","T","_","I","N","D","I","C","A","T","I","O","N","]"," ","I","n","d","i","c","a","t","i","o","n"," ","|"," ","S","e","c","t","i","o","n"," ","1",".","2"," ","|"," ","1","2","-","1","4"," ","|"," ","|"," ">>
RowIndicationAgain ==
    <<"|"," ","[","I","N","S","E","R","T","_","I","N","D","I","C","A","T","I","O","N","]"," ","-"," ","I","n","d","i","c","a","t","i","o","n",":"," ","|"," ","S","e","c","t","i","o","n","s"," ","1",".","2"," ","+"," ","5",".","5"," ","|"," ","4","0"," ","|"," ","S","u","m","m","a","r","i","z","e"," ","|">>
RowDashes == <<"|"," ","[","I","N","S","E","R","T","_","D","O","S","E","]"," ","D","o","s","e"," ","-","-","-"," ","a","d","u","l","t"," ","|"," ","5",".","1"," ","|"," ","3"," ","|"," ","|">>

FileLines ==
    { RowIndication, RowIndicationAgain, RowDashes,
      <<"|"," ","D","S","R"," ","F","i","e","l","d"," ","|"," ","I","B"," ","S","e","c","t","i","o","n"," ","|"," ","P","a","g","e","s"," ","|"," ","N","o","t","e","s"," ","|">>,
      <<"|","-","-","-","|","-","-","-","|","-","-","-","|","-","-","-","|">>,
      <<"#"," ","M","a","p","p","i","n","g"," ","o","f"," ","D","S","R"," ","f","i","e","l","d","s">>, <<>>,
      <<"|"," ","[","I","N","S","E","R","T","_","D","E","A","T","H","S","]"," ","D","e","a","t","h","s"," ","|"," ","S","a","f","e","t","y"," ","D","a","t","a","b","a","s","e"," ","|"," ","N","/","A"," ","|"," ","r","e","q","u","i","r","e","s"," ","q","u","e","r","y"," ","|">>,
      <<"|"," ","N","o","t","e","s"," ","o","n","l","y"," ","|"," ","1",".","2"," ","|"," ","5"," ","|"," ","x"," ","|">>,
      <<" ","|"," ","[","I","N","S","E","R","T","_","L","E","A","D","]"," ","x"," ","|"," ","1"," ","|"," ","2"," ","|"," ","|">>,
      <<"|"," ","[","I","N","S","E","R","T","_","S","H","O","R","T","]"," ","x"," ","|"," ","1"," ","|"," ","2"," ","|">>,
      <<"|"," ","[","I","N","S","E","R","T","_","E","M","P","T","Y","]"," ","x"," ","|","|"," ","2"," ","|"," ","|">>,
      <<"|"," ","[","i","n","s","e","r","t","_","l","o","w","e","r","]"," ","x"," ","|"," ","1"," ","|"," ","2"," ","|"," ","|">>,
      <<"|"," ","[","I","N","S","E","R","T","_","]"," ","x"," ","|"," ","1"," ","|"," ","2"," ","|"," ","|">>,
      <<"|"," ","a"," ","[","I","N","S","E","R","T","_","X","1","]"," ","b"," ","[","I","N","S","E","R","T","_","Y","2","]"," ","[","I","N","S","E","R","T","_","X","1","]"," ","|"," ","2"," ","|"," ","9","-","7"," ","|"," ","n","/","a"," ","|"," ","e","x","t","r","a"," ","|">> }

\* content.split('\n') has at least one line: an empty file is one empty line
Files == SeqsUpTo(FileLines, MaxLines) \ {<<>>}

MaxRows == 3

RowSafety == <<"|"," ","[","I","N","S","E","R","T","_","S","A","F","E","T","Y","]"," ","S","a","f","e","t","y"," ","|"," ","S","e","c","t","i","o","n"," ","5"," ","|"," ","4","0"," ","|"," ","|">>
RowSummary == <<"|"," ","[","I","N","S","E","R","T","_","S","U","M","M","A","R","Y","]"," ","S","u","m","m","a","r","y"," ","|"," ","S","e","c","t","i","o","n","s"," ","1"," ","+"," ","5"," ","|"," ","7"," ","|"," ","S","u","m","m","a","r","i","z","e"," ","|">>
RowDeaths == <<"|"," ","[","I","N","S","E","R","T","_","D","E","A","T","H","S","]"," ","D","e","a","t","h","s"," ","|"," ","S","a","f","e","t","y"," ","D","a","t","a","b","a","s","e"," ","|"," ","N","/","A"," ","|"," ","r","e","q","u","i","r","e","s"," ","q","u","e","r","y"," ","|">>
RowHeader == <<"|"," ","D","S","R"," ","F","i","e","l","d"," ","|"," ","I","B"," ","S","e","c","t","i","o","n"," ","|"," ","P","a","g","e","s"," ","|"," ","N","o","t","e","s"," ","|">>

\* the mapping files of the pipeline runs
PipelineLines == {RowIndication, RowSafety, RowSummary, RowDeaths, RowHeader}

PipelineFiles == SeqsUpTo(PipelineLines, MaxRows) \ {<<>>}

Node(title_, pages_) == [title |-> title_, pages |-> pages_, pages_type |-> "list"]

\* a node whose "pages" is null in the index file
NullNode(title_) == [title |-> title_, pages |-> <<>>, pages_type |-> "null"]

TopNode(node, subsections_) ==
    [title |-> node.title, pages |-> node.pages, pages_type |-> node.pages_type,
     subsections |-> subsections_]

SummarySection ==
    [key |-> <<"1">>,
     value |-> TopNode(Node(<<"S","U","M","M","A","R","Y">>, <<1, 2>>),
                       << [key |-> <<"1",".","2">>, value |-> Node(<<"I","n","d","i","c","a","t","i","o","n">>, <<12, 13>>)] >>)]

IndexEmpty == [sections |-> <<>>]

IndexGood ==
    [sections |->
        << SummarySection,
           [key |-> <<"5">>,
            value |-> TopNode(Node(<<"S","A","F","E","T","Y"," "," ","D","A","T","A">>, <<40, 41, 42, 43>>), <<>>)] >>]

\* an index file in which the page list of section 5 is null
IndexNull ==
    [sections |->
        << SummarySection,
           [key |-> <<"5">>, value |-> TopNode(NullNode(<<"S","A","F","E","T","Y"," "," ","D","A","T","A">>), <<>>)] >>]

Indexes == {IndexEmpty, IndexGood, IndexNull}

\* rows resolved on their own, one row to a file
RowCases == <<"|"," ","[","I","N","S","E","R","T","_","C","A","S","E","S","]"," ","C","a","s","e","s"," ","|"," ","S","a","f","e","t","y"," ","D","a","t","a","b","a","s","e"," ","|"," ","N","/","A"," ","|"," ","|">>
RowOverview == <<"|"," ","[","I","N","S","E","R","T","_","O","V","E","R","V","I","E","W","]"," ","O","v","e","r","v","i","e","w"," ","|"," ","S","e","c","t","i","o","n","s"," ","8"," ","+"," ","9"," ","|"," ","-"," ","|"," ","S","u","m","m","a","r","i","z","e"," ","|">>
RowHistory == <<"|"," ","[","I","N","S","E","R","T","_","H","I","S","T","O","R","Y","]"," ","H","i","s","t","o","r","y"," ","|"," ","B","a","c","k","g","r","o","u","n","d"," ","|"," ","-"," ","|"," ","|">>
RowTable == <<"|"," ","[","I","N","S","E","R","T","_","T","A","B","L","E","]"," ","T","a","b","l","e"," ","|"," ","A","p","p","e","n","d","i","x"," ","|"," ","3",","," ","4"," ","|"," ","|">>
RowDosing == <<"|"," ","[","I","N","S","E","R","T","_","D","O","S","I","N","G","]"," ","D","o","s","i","n","g"," ","|"," ","S","e","c","t","i","o","n"," ","6"," ","|"," ","5"," ","|"," ","|">>
RowLong == <<"|"," ","[","I","N","S","E","R","T","_","L","O","N","G","]"," ","L","o","n","g"," ","|"," ","S","e","c","t","i","o","n"," ","7"," ","|"," ","1"," ","|"," ","S","u","m","m","a","r","i","z","e"," ","|">>
RowLonger == <<"|"," ","[","I","N","S","E","R","T","_","L","O","N","G","E","R","]"," ","L","o","n","g","e","r"," ","|"," ","S","e","c","t","i","o","n"," ","7","0"," ","|"," ","1"," ","|"," ","S","u","m","m","a","r","i","z","e"," ","|">>
RowKinetics == <<"|"," ","[","I","N","S","E","R","T","_","P","K","]"," ","P","h","a","r","m","a","c","o","k","i","n","e","t","i","c","s"," ","|"," ","S","e","c","t","i","o","n"," ","1",".","2"," ","|"," ","-"," ","|"," ","|">>

FieldLines ==
    {RowCases, RowOverview, RowHistory, RowTable, RowDosing, RowLong, RowLonger,
     RowKinetics}

\* a title of n characters
LongTitle(n) == [i \in 1..n |-> "x"]

\* what ai_extract puts around the title of a section with one page
SourceFrame(token) ==
    Len(<<"#","#","#"," ","S","e","c","t","i","o","n"," ">> \o token \o <<"\n">> \o <<"\n","\n">> \o <<"[","C","o","n","t","e","n","t"," ","f","r","o","m"," ","p","a","g","e"," ","1","]">>)

\* an index whose section 7 gives a combined source of exactly SourceLimit
\* characters and whose section 70 gives one character more, and whose
\* section 6 has a page footer and stray whitespace in its title
IndexLong ==
    [sections |->
        << [key |-> <<"6">>,
            value |-> TopNode(Node(<<" ","D","O","S","I","N","G","\t","P","a","g","e"," ","2"," ","o","f"," ","1","0"," "," ","A","N","D","\n"," ","A","D","M","I","N","I","S","T","R","A","T","I","O","N"," ">>, <<5>>),
                              <<>>)],
           [key |-> <<"7">>,
            value |-> TopNode(Node(LongTitle(SourceLimit - SourceFrame(<<"7">>)), <<1>>),
                              <<>>)],
           [key |-> <<"7", "0">>,
            value |-> TopNode(Node(LongTitle(SourceLimit + 1 - SourceFrame(<<"7", "0">>)),
                                   <<1>>), <<>>)] >>]

\* the values config.API_DELAY_SECONDS is set to
ConfiguredDelays == {API_DELAY_SECONDS, 2 * API_DELAY_SECONDS}

\* the runs of stage 2: a mapping file, the index of stage 1, the configuration
Runs ==
    {[lines |-> f, index |-> x, delay |-> API_DELAY_SECONDS] :
        f \in PipelineFiles, x \in Indexes}
    \cup {[lines |-> <<l>>, index |-> x, delay |-> d] :
             l \in FieldLines, x \in Indexes \cup {IndexLong}, d \in ConfiguredDelays}

\* the index with every null page list replaced by an empty list
RepairedNode(node) == [node EXCEPT !.pages_type = "list"]

Repaired(index) ==
    [sections |->
        [i \in 1..Len(index.sections) |->
            [key |-> index.sections[i].key,
             value |-> [RepairedNode(index.sections[i].value) EXCEPT
                          !.subsections =
                              [j \in 1..Len(@) |->
                                  [key |-> @[j].key, value |-> RepairedNode(@[j].value)]]]]]]

\* what the gateway may do with a request: a completion, or an exception
GatewayReplies ==
    { [ok |-> TRUE, text |-> <<" ","S","y","n","t","h","e","s","i","z","e","d"," ","s","u","m","m","a","r","y",".","\n">>],
      [ok |-> FALSE, text |-> <<"R","a","t","e"," ","l","i","m","i","t"," ","e","x","c","e","e","d","e","d">>] }

(***************************************************************************)
(* _parse_pages on one cell, then on its own re-serialized result          *)
(***************************************************************************)
PagesIdle ==
    /\ pages_str = <<>>
    /\ page_list = <<>>
    /\ reparsed = <<>>
    /\ pages_pc = "idle"

TypeIdle ==
    /\ ib_section = <<>>
    /\ notes = <<>>
    /\ mapping_type = ""
    /\ type_pc = "idle"

ParseIdle ==
    /\ content = <<>>
    /\ line_no = 0
    /\ mappings = <<>>
    /\ mapping_dict = <<>>
    /\ parse_pc = "idle"

MatchIdle ==
    /\ ib_index = IndexEmpty
    /\ client = FALSE
    /\ current = 0
    /\ matched_content = <<>>
    /\ counts = [direct |-> 0, ai |-> 0, unavailable |-> 0]
    /\ gateway_log = <<>>
    /\ delays = 0
    /\ match_pc = "idle"
    /\ field_trace = <<>>
    /\ api_delay_seconds = API_DELAY_SECONDS
    /\ ref_matched = <<>>
    /\ saved_content = <<>>

ValidateIdle ==
    /\ validate_field = <<>>
    /\ validate_content = <<>>
    /\ validation = <<>>
    /\ validate_pc = "idle"

IndexIdle ==
    /\ extracted_text = <<>>
    /\ indexer_sections = <<>>
    /\ created_index = <<>>
    /\ index_file = <<>>
    /\ loaded_index = <<>>
    /\ index_run = <<>>
    /\ created_matched = <<>>
    /\ loaded_matched = <<>>
    /\ index_pc = "idle"

PipeIdle ==
    /\ config = <<>>
    /\ ib_pdf = <<>>
    /\ template_docx = <<>>
    /\ mapping_md = <<>>
    /\ index_json = <<>>
    /\ written = {}
    /\ pipeline = <<>>
    /\ populator = <<>>
    /\ gateway = <<>>
    /\ stages = <<>>
    /\ exit_code = -1
    /\ run_no = 0
    /\ pipe_pc = "idle"

PagesInit ==
    /\ TypeIdle
    /\ ParseIdle
    /\ MatchIdle
    /\ ValidateIdle
    /\ IndexIdle
    /\ PipeIdle
    /\ pages_str \in PageCells
    /\ page_list = <<>>
    /\ reparsed = <<>>
    /\ pages_pc = "cell"

CallParsePages ==
    /\ pages_pc = "cell"
    /\ page_list' = ParsePages(pages_str)
    /\ pages_pc' = "parsed"
    /\ UNCHANGED <<pages_str, reparsed, typeVars, parseVars, matchVars, validateVars, indexVars, pipeVars>>

ReparseSerialized ==
    /\ pages_pc = "parsed"
    /\ reparsed' = ParsePages(Serialize(page_list))
    /\ pages_pc' = "reparsed"
    /\ UNCHANGED <<pages_str, page_list, typeVars, parseVars, matchVars, validateVars, indexVars, pipeVars>>

PagesNext == CallParsePages \/ ReparseSerialized

SpecPages == PagesInit /\ [][PagesNext]_vars

(***************************************************************************)
(* Claims about _parse_pages                                               *)
(***************************************************************************)
StrictlyAscending(l) == \A i \in 1..(Len(l) - 1) : l[i] < l[i+1]

AllDigits(s) == Len(s) > 0 /\ \A i \in 1..Len(s) : s[i] \in Digits

\* the comma-separated pieces of the cell, each stripped
PiecesOf(cell) == {Strip(Split(cell, ",")[i]) : i \in 1..Len(Split(cell, ","))}

\* a piece written "start-end": two numbers around one dash, nothing else
IsPlainRange(piece) ==
    /\ Len(Split(piece, "-")) = 2
    /\ AllDigits(Strip(Split(piece, "-")[1]))
    /\ AllDigits(Strip(Split(piece, "-")[2]))

PlainRangePages(piece) ==
    ToInt(Strip(Split(piece, "-")[1])) .. ToInt(Strip(Split(piece, "-")[2]))

CellExample == <<"3","4","-","3","6",","," ","4","0",","," ","4","0">>

\* C5: for every page-list string the result of _parse_pages is strictly
\* ascending (hence free of duplicates), holds every integer of every range
\* "start-end" of the cell, is [34,35,36,40] for "34-36, 40, 40", and parsing
\* its comma-separated re-serialization gives the same list again.
C5_PagesAscendingIdempotent ==
    pages_pc # "cell" =>
        /\ StrictlyAscending(page_list)
        /\ \A piece \in PiecesOf(pages_str) :
              IsPlainRange(piece) => PlainRangePages(piece) \subseteq Range(page_list)
        /\ (pages_str = CellExample => page_list = <<34, 35, 36, 40>>)
        /\ (pages_pc = "reparsed" => reparsed = page_list)

\* C5 witness: the example cell, with a range and a duplicate, parsed twice
C5_Witness ==
    /\ pages_pc = "reparsed"
    /\ pages_str = CellExample
    /\ page_list = <<34, 35, 36, 40>>
    /\ reparsed = page_list

\* the places of a piece where a range "start-end" begins
RangeStarts(piece) ==
    {i \in 1..Len(piece) :
        /\ (i = 1 \/ piece[i-1] \notin Digits)
        /\ RangeMatch(SubSeq(piece, i, Len(piece))).matched}

\* a piece as the specification reads it: a range wherever one is written in
\* the piece, and otherwise the first digit run of the piece
PieceAsSpecified(piece) ==
    IF RangeStarts(piece) # {}
    THEN LET m == RangeMatch(SubSeq(piece, SetMin(RangeStarts(piece)), Len(piece)))
         IN m.start .. m.end
    ELSE IF FirstDigitRun(piece) # <<>> THEN {ToInt(FirstDigitRun(piece))} ELSE {}

\* C6: every comma-separated piece of the cell is read as a single integer
\* (its first digit run) or as a range "start-end" giving all of [start, end];
\* the cells "", "N/A" and "-" give the empty list.
C6_EveryPieceRead ==
    pages_pc # "cell" =>
        Range(page_list) =
            IF pages_str \in {<<>>, <<"N","/","A">>, <<"-">>} THEN {}
            ELSE UNION {PieceAsSpecified(piece) : piece \in PiecesOf(pages_str)}

\* C6 witness: a cell with a range piece that has text before the range
C6_Witness ==
    /\ pages_pc = "parsed"
    /\ pages_str = <<"p",".","3","4","-","3","6",","," ","4","0">>
    /\ page_list = <<40>>


(***************************************************************************)
(* _determine_mapping_type on one pair of cells                            *)
(***************************************************************************)
TypeInit ==
    /\ PagesIdle
    /\ ParseIdle
    /\ MatchIdle
    /\ ValidateIdle
    /\ IndexIdle
    /\ PipeIdle
    /\ ib_section \in SectionCells
    /\ notes \in NotesCells
    /\ mapping_type = ""
    /\ type_pc = "cells"

CallDetermineMappingType ==
    /\ type_pc = "cells"
    /\ mapping_type' = DetermineMappingType(ib_section, notes)
    /\ type_pc' = "classified"
    /\ UNCHANGED <<ib_section, notes, pagesVars, parseVars, matchVars, validateVars, indexVars, pipeVars>>

TypeNext == CallDetermineMappingType

SpecType == TypeInit /\ [][TypeNext]_vars

(***************************************************************************)
(* Claims about _determine_mapping_type                                    *)
(***************************************************************************)
\* the cell contains the keyword, whatever the case of its letters
ContainsNoCase(cell, kw) ==
    \E i \in 1..(Len(cell) - Len(kw) + 1) :
        \A j \in 1..Len(kw) : LowerChar(cell[i + j - 1]) = LowerChar(kw[j])

UnavailableWords ==
    { <<"n","o","t"," ","i","n"," ","i","b">>, <<"e","x","t","e","r","n","a","l"," ","s","o","u","r","c","e">>, <<"s","a","f","e","t","y"," ","d","a","t","a","b","a","s","e">>, <<"c","a","s","e"," ","r","e","p","o","r","t">>,
      <<"r","e","q","u","i","r","e","s"," ","q","u","e","r","y">>, <<"n","o","t"," ","a","v","a","i","l","a","b","l","e">>, <<"n","/","a">> }

SynthesisWords ==
    { <<"s","y","n","t","h","e","s","i","s">>, <<"c","o","m","b","i","n","e">>, <<"s","u","m","m","a","r","i","z","e">>, <<"m","u","l","t","i","p","l","e"," ","s","e","c","t","i","o","n","s">>, <<"r","e","w","r","i","t","e">>,
      <<"a","d","a","p","t">> }

RowUnavailable ==
    \E kw \in UnavailableWords : ContainsNoCase(ib_section, kw) \/ ContainsNoCase(notes, kw)

RowSynthesis ==
    \/ \E kw \in SynthesisWords : ContainsNoCase(notes, kw)
    \/ \E i \in 1..Len(ib_section) : ib_section[i] \in {"+", ","}
    \/ ContainsNoCase(ib_section, <<"a","n","d">>)

\* C3: a row with an unavailable keyword in either cell is classified
\* 'unavailable', whatever synthesis keyword or multi-section sign it also has.
C3_UnavailableFirst ==
    (type_pc = "classified" /\ RowUnavailable) => mapping_type = "unavailable"

\* C3 witness: "external source" in the section reference together with a '+'
\* and with "summarize" in the notes
C3_Witness ==
    /\ type_pc = "classified"
    /\ ContainsNoCase(ib_section, <<"e","x","t","e","r","n","a","l"," ","s","o","u","r","c","e">>)
    /\ \E i \in 1..Len(ib_section) : ib_section[i] = "+"
    /\ ContainsNoCase(notes, <<"s","u","m","m","a","r","i","z","e">>)
    /\ mapping_type = "unavailable"

ParseStart(lines) ==
    /\ content = lines
    /\ line_no = 1
    /\ mappings = <<>>
    /\ mapping_dict = <<>>
    /\ parse_pc = "lines"

ParseInit ==
    /\ PagesIdle
    /\ TypeIdle
    /\ MatchIdle
    /\ ValidateIdle
    /\ IndexIdle
    /\ PipeIdle
    /\ \E lines \in Files : ParseStart(lines)

\* one iteration of the loop over the lines
ParseLine ==
    /\ parse_pc = "lines"
    /\ line_no <= Len(content)
    /\ mappings' =
          IF RowContributes(content[line_no])
          THEN DictSet(mappings, FindPlaceholder(Cell(content[line_no], 1)),
                       RowRecord(content[line_no]))
          ELSE mappings
    /\ line_no' = line_no + 1
    /\ UNCHANGED <<content, mapping_dict, parse_pc, pagesVars, typeVars, matchVars, validateVars, indexVars, pipeVars>>

\* after the loop: self.mapping_dict = mappings; return mappings
ParseReturn ==
    /\ parse_pc = "lines"
    /\ line_no > Len(content)
    /\ mapping_dict' = mappings
    /\ parse_pc' = "returned"
    /\ UNCHANGED <<content, line_no, mappings, pagesVars, typeVars, matchVars, validateVars, indexVars, pipeVars>>

ParseNext == ParseLine \/ ParseReturn

SpecParse == ParseInit /\ [][ParseNext]_vars

(***************************************************************************)
(* Claims about parse_mapping_file                                         *)
(***************************************************************************)
KnownHeaderLabels == { <<"D","S","R"," ","T","e","m","p","l","a","t","e"," ","F","i","e","l","d">>, <<"D","S","R"," ","F","i","e","l","d">> }

\* the cell is made of the characters of a table rule only
OnlySeparators(cell) == \A i \in 1..Len(cell) : cell[i] \in {"-", "=", ":", " "}

\* the cell holds a token [INSERT_<A-Z0-9_>+]
HasPlaceholderToken(cell) ==
    \E i \in 1..Len(cell) : \E j \in (i + Len(InsertPrefix) + 1)..Len(cell) :
        /\ SubSeq(cell, i, i + Len(InsertPrefix) - 1) = InsertPrefix
        /\ cell[j] = "]"
        /\ \A k \in (i + Len(InsertPrefix))..(j - 1) : cell[k] \in TokenChars

\* the rows that contribute a FieldMapping, as the specification names them
RowAsSpecified(line) ==
    /\ RowMatches(line)
    /\ Cell(line, 1) \notin KnownHeaderLabels
    /\ ~OnlySeparators(Cell(line, 1))
    /\ HasPlaceholderToken(Cell(line, 1))

RECURSIVE SpecifiedMappings(_)
\* the mapping of a list of lines when exactly those rows contribute
SpecifiedMappings(lines) ==
    IF lines = <<>> THEN <<>>
    ELSE LET before == SpecifiedMappings(SubSeq(lines, 1, Len(lines) - 1))
             line == lines[Len(lines)]
         IN IF RowAsSpecified(line)
            THEN DictSet(before, FindPlaceholder(Cell(line, 1)), RowRecord(line))
            ELSE before

\* C8: a line contributes a FieldMapping exactly when it matches the row
\* grammar, its first cell is no header label and not made of separator
\* characters only, and its first cell holds a placeholder token; every other
\* line changes no mapping.
C8_RowGate ==
    parse_pc # "idle" => mappings = SpecifiedMappings(SubSeq(content, 1, line_no - 1))

\* C8 witness: a data row whose description holds "---" has been read and
\* has left no mapping
C8_Witness ==
    /\ parse_pc = "returned"
    /\ content = <<RowDashes>>
    /\ RowAsSpecified(RowDashes)
    /\ mapping_dict = <<>>

\* the lines read so far that stored a mapping under placeholder k
RowsCarrying(k) ==
    {n \in 1..(line_no - 1) :
        RowContributes(content[n]) /\ FindPlaceholder(Cell(content[n], 1)) = k}

\* C9: a placeholder has a single entry in the parsed mapping, and all of the
\* entry's values (description, section reference, pages, strategy, notes)
\* are those of the last row that carries the placeholder.
C9_LastRowWins ==
    parse_pc # "idle" =>
        /\ \A i, j \in 1..Len(mappings) : mappings[i].key = mappings[j].key => i = j
        /\ \A i \in 1..Len(mappings) :
              /\ RowsCarrying(mappings[i].key) # {}
              /\ mappings[i].value = RowRecord(content[SetMax(RowsCarrying(mappings[i].key))])
        /\ (parse_pc = "returned" => mapping_dict = mappings)

\* C9 witness: two rows for [INSERT_INDICATION]; the mapping holds the second
C9_Witness ==
    /\ parse_pc = "returned"
    /\ content = <<RowIndication, RowIndicationAgain>>
    /\ mapping_dict =
          << [key |-> <<"[","I","N","S","E","R","T","_","I","N","D","I","C","A","T","I","O","N","]">>,
              value |-> [field_description |-> <<"I","n","d","i","c","a","t","i","o","n">>,
                         ib_section |-> <<"S","e","c","t","i","o","n","s"," ","1",".","2"," ","+"," ","5",".","5">>,
                         ib_pages |-> <<40>>,
                         mapping_type |-> "synthesis_required",
                         notes |-> <<"S","u","m","m","a","r","i","z","e">>]] >>

(***************************************************************************)
(* Stage 2 of the pipeline (IBtoDSRPipeline.match_content): the mapping    *)
(* file is parsed, a ContentMatcher is made for the index of stage 1 and   *)
(* the parsed mapping, match_all_fields runs, the result is written        *)
(***************************************************************************)
Init ==
    /\ PagesIdle
    /\ TypeIdle
    /\ ValidateIdle
    /\ IndexIdle
    /\ PipeIdle
    /\ \E run \in Runs :
          /\ ParseStart(run.lines)
          /\ ib_index = run.index
          /\ api_delay_seconds = run.delay
    /\ client \in BOOLEAN
    /\ current = 0
    /\ matched_content = <<>>
    /\ counts = [direct |-> 0, ai |-> 0, unavailable |-> 0]
    /\ gateway_log = <<>>
    /\ delays = 0
    /\ match_pc = "idle"
    /\ field_trace = <<>>
    /\ ref_matched = <<>>
    /\ saved_content = <<>>

\* ContentMatcher(...) and the start of match_all_fields
MatchStart ==
    /\ parse_pc = "returned"
    /\ match_pc = "idle"
    /\ matched_content' = NewResult
    /\ ref_matched' = NewResult
    /\ counts' = [direct |-> 0, ai |-> 0, unavailable |-> 0]
    /\ current' = 0
    /\ match_pc' = "loop"
    /\ field_trace' = <<>>
    /\ UNCHANGED <<ib_index, client, gateway_log, delays, saved_content,
                   api_delay_seconds,
                   pagesVars, typeVars, parseVars, validateVars, indexVars, pipeVars>>

\* one iteration of the loop over self.mapping_dict.items().  The lookup
\* mapping_info['mapping_type'] comes before the try block: a KeyError there
\* leaves match_all_fields; what the try block raises is stored as content
MatchField ==
    /\ match_pc = "loop"
    /\ current < Len(mapping_dict)
    /\ current' = current + 1
    /\ IF "mapping_type" \in DOMAIN mapping_dict[current + 1].value
       THEN /\ \E reply \in GatewayReplies :
               \E r \in {ResolveField(ib_index, client, mapping_dict[current + 1].key,
                                      mapping_dict[current + 1].value, reply)} :
               \E ref \in {ResolveField(Repaired(ib_index), client,
                                        mapping_dict[current + 1].key,
                                        mapping_dict[current + 1].value, reply)} :
                  /\ matched_content' =
                        StoreResult(matched_content, mapping_dict[current + 1].key, r)
                  /\ ref_matched' =
                        StoreResult(ref_matched, mapping_dict[current + 1].key, ref)
                  /\ counts' =
                        IF r.exc THEN counts
                        ELSE [counts EXCEPT
                                 ![CountKey(mapping_dict[current + 1].value.mapping_type)]
                                     = @ + 1]
                  /\ gateway_log' = gateway_log \o r.requests
                  /\ delays' = delays + r.sleeps
                  /\ field_trace' =
                        Append(field_trace,
                               [sections |-> r.sections, pages |-> r.pages,
                                requests |-> Len(r.requests), slept |-> r.sleeps])
            /\ UNCHANGED match_pc
       ELSE /\ match_pc' = "raised"
            /\ UNCHANGED <<matched_content, ref_matched, counts, gateway_log, delays,
                           field_trace>>
    /\ ib_index' = IF "mapping_type" \in DOMAIN mapping_dict[current + 1].value
                    THEN IndexAfterResolve(ib_index, client,
                                           mapping_dict[current + 1].value)
                    ELSE ib_index
    /\ mapping_dict' =
          IF "mapping_type" \in DOMAIN mapping_dict[current + 1].value
          THEN [mapping_dict EXCEPT ![current + 1].value =
                   MappingInfoAfterResolve(ib_index, client, @)]
          ELSE mapping_dict
    /\ UNCHANGED <<client, saved_content, api_delay_seconds,
                   content, line_no, mappings, parse_pc,
                   pagesVars, typeVars, validateVars, indexVars, pipeVars>>

\* return matched_content
MatchReturn ==
    /\ match_pc = "loop"
    /\ current = Len(mapping_dict)
    /\ match_pc' = "returned"
    /\ UNCHANGED <<ib_index, client, current, matched_content, counts, gateway_log,
                   delays, field_trace, api_delay_seconds, ref_matched, saved_content,
                   pagesVars, typeVars, parseVars, validateVars, indexVars, pipeVars>>

\* matched_content.json is written
SaveMatched ==
    /\ match_pc = "returned"
    /\ saved_content' = matched_content
    /\ match_pc' = "saved"
    /\ UNCHANGED <<ib_index, client, current, matched_content, counts, gateway_log,
                   delays, field_trace, api_delay_seconds, ref_matched,
                   pagesVars, typeVars, parseVars, validateVars, indexVars, pipeVars>>

Next == ParseLine \/ ParseReturn \/ MatchStart \/ MatchField \/ MatchReturn \/ SaveMatched

Spec == Init /\ [][Next]_vars


(***************************************************************************)
(* validate_extraction                                                     *)
(***************************************************************************)
\* the length above which validate_extraction calls content very long
MaxContentLength == 20000
\* the length under which validate_extraction calls content very short
MinContentLength == 10

\* len(s.strip()) == 0: every character of s is one that strip() removes
IsBlank(s) == \A i \in 1..Len(s) : s[i] \in Whitespace

\* the "Content very long (N chars)" warning
VeryLongWarning(n) == <<"C","o","n","t","e","n","t"," ","v","e","r","y"," ","l","o","n","g"," ","(">> \o IntToStr(n) \o <<" ","c","h","a","r","s",")">>

\* validate_extraction: the dict it returns, the warnings in the order the
\* four tests append them
ValidateExtraction(field_name, extracted_content) ==
    [ field |-> field_name,
      is_valid |-> ~(Len(extracted_content) = 0 \/ IsBlank(extracted_content)),
      warnings |->
          (IF Len(extracted_content) = 0 \/ IsBlank(extracted_content)
           THEN << <<"C","o","n","t","e","n","t"," ","i","s"," ","e","m","p","t","y">> >> ELSE <<>>)
          \o
          (IF \/ Contains(extracted_content, <<"[","E","R","R","O","R">>)
              \/ Contains(extracted_content, <<"[","D","A","T","A"," ","N","O","T"," ","A","V","A","I","L","A","B","L","E">>)
           THEN << <<"C","o","n","t","a","i","n","s"," ","e","r","r","o","r"," ","o","r"," ","u","n","a","v","a","i","l","a","b","l","e"," ","m","e","s","s","a","g","e">> >> ELSE <<>>)
          \o
          (IF Len(extracted_content) > MaxContentLength
           THEN << VeryLongWarning(Len(extracted_content)) >> ELSE <<>>)
          \o
          (IF /\ Len(extracted_content) < MinContentLength
              /\ ~Contains(extracted_content, <<"[">>)
           THEN << <<"C","o","n","t","e","n","t"," ","v","e","r","y"," ","s","h","o","r","t">> >> ELSE <<>>) ]

MaxContentFrags == 2

ContentFrags ==
    { <<" ">>, <<"\n">>, <<"o","k">>, <<"s","e","e"," ">>, <<"[","2","]">>, <<"[","T","B","D","]">>, <<"[","E","R","R","O","R">>,
      <<"[","D","A","T","A"," ","N","O","T"," ","A","V","A","I","L","A","B","L","E">>, <<"D","o","s","e"," ","5"," ","m","g",".">> }

\* the contents validate_extraction is applied to: short and blank strings,
\* strings with and without brackets, the sentinels match_all_fields stores,
\* and contents at and over the length limit
ValidatedContents ==
    Concats(ContentFrags, MaxContentFrags)
    \cup { ErrorContent(<<"'","p","a","g","e","s","'">>),
           HandleUnavailableField(<<"[","I","N","S","E","R","T","_","S","A","L","E","S","]">>, [notes |-> <<>>]).val,
           HandleUnavailableField(<<"[","I","N","S","E","R","T","_","S","A","L","E","S","]">>, [notes |-> <<"S","a","f","e","t","y"," ","D","a","t","a","b","a","s","e">>]).val,
           LongTitle(MaxContentLength),
           LongTitle(MaxContentLength + 1),
           <<"[","E","R","R","O","R">> \o LongTitle(MaxContentLength) }

ValidatedFields == { <<"[","I","N","S","E","R","T","_","I","N","D","I","C","A","T","I","O","N","]">>, <<"[","I","N","S","E","R","T","_","S","A","L","E","S","]">> }

\* a matcher that has matched nothing yet, and the arguments of one call of
\* validate_extraction
ValidateInit ==
    /\ PagesIdle
    /\ TypeIdle
    /\ ParseIdle
    /\ MatchIdle
    /\ IndexIdle
    /\ PipeIdle
    /\ validate_field \in ValidatedFields
    /\ validate_content \in ValidatedContents
    /\ validation = <<>>
    /\ validate_pc = "call"

\* validate_extraction runs and returns
CallValidateExtraction ==
    /\ validate_pc = "call"
    /\ validation' = ValidateExtraction(validate_field, validate_content)
    /\ validate_pc' = "done"
    /\ UNCHANGED <<validate_field, validate_content, pagesVars, typeVars,
                   parseVars, matchVars, indexVars, pipeVars>>

ValidateNext == CallValidateExtraction

SpecValidate == ValidateInit /\ [][ValidateNext]_vars

(***************************************************************************)
(* IBIndexer.identify_sections                                             *)
(***************************************************************************)
\* [A-Z\s,\-\(\)] of section_pattern
TitleChars == UpperLetters \cup Whitespace \cup {",", "-", "(", ")"}

\* ^ under re.MULTILINE: the start of the text or the place after a newline
LineStart(text, p) == p = 1 \/ text[p-1] = "\n"

\* the last place of the longest run of characters of cs that starts at i
\* (i - 1 when text[i] is not one of them)
RunEnd(text, i, cs) ==
    SetMin({j \in i..(Len(text) + 1) : j = Len(text) + 1 \/ text[j] \notin cs}) - 1

NoHeader == [matched |-> FALSE, num |-> <<>>, title |-> <<>>, end |-> 0]

\* the place where \.? ends after the dotted number that ends at e
DotEnd(text, e) == IF e + 1 <= Len(text) /\ text[e+1] = "." THEN e + 1 ELSE e

\* \s+([A-Z][A-Z\s,\-\(\)]+) after the number text[p..e]: w is the place
\* after the whitespace
HeaderTitled(text, p, e, w) ==
    IF /\ w > DotEnd(text, e) + 1
       /\ w <= Len(text)
       /\ text[w] \in UpperLetters
       /\ RunEnd(text, w + 1, TitleChars) >= w + 1
    THEN [matched |-> TRUE, num |-> SubSeq(text, p, e),
          title |-> Strip(SubSeq(text, w, RunEnd(text, w + 1, TitleChars))),
          end |-> RunEnd(text, w + 1, TitleChars)]
    ELSE NoHeader

\* the rest of the pattern after the longest dotted number text[p..e]
HeaderNumbered(text, p, e) ==
    HeaderTitled(text, p, e, SkipSpaces(text, DotEnd(text, e) + 1))

RECURSIVE HeadersFrom(_, _)
\* the match of ^(\d+(?:\.\d+)*\.?)\s+([A-Z][A-Z\s,\-\(\)]+) at p: the
\* longest dotted number, an optional dot, whitespace, an upper-case letter
\* and at least one more character of the title class, as far as they go.
\* num is group(1).rstrip('.'), title is group(2).strip()
HeaderAt(text, p) ==
    IF ~LineStart(text, p) \/ text[p] \notin Digits THEN NoHeader
    ELSE HeaderNumbered(text, p, SetMax(ChainEnds(text, DigitRunEnd(text, p))))

\* the headers finditer yields after the match m, m first
HeadersAfter(text, m) ==
    IF m.matched THEN <<m>> \o HeadersFrom(text, m.end + 1) ELSE <<>>

\* the match at the leftmost of the places starts
FirstHeader(text, starts) ==
    IF starts = {} THEN NoHeader ELSE HeaderAt(text, SetMin(starts))

\* section_pattern.finditer(text) from position i on: the leftmost match,
\* then on after its end
HeadersFrom(text, i) ==
    HeadersAfter(text, FirstHeader(text, {p \in i..Len(text) : HeaderAt(text, p).matched}))

\* titles under this length are skipped as false positives
MinTitleLength == 3

\* the headers of one page that identify_sections keeps, with the page number
PageDetections(page_num, text) ==
    LET kept == SelectSeq(HeadersFrom(text, 1), LAMBDA m : Len(m.title) >= MinTitleLength)
    IN [k \in 1..Len(kept) |-> [page |-> page_num, num |-> kept[k].num, title |-> kept[k].title]]

\* one header stored in the dict sections: a new section number gets its
\* title and the page, a known one gets the page if it is a new page
StoreDetection(flat, m) ==
    IF HasKey(flat, m.num)
    THEN [i \in 1..Len(flat) |->
            IF flat[i].key = m.num /\ \A k \in 1..Len(flat[i].value.pages) :
                                          flat[i].value.pages[k] # m.page
            THEN [key |-> m.num,
                  value |-> [flat[i].value EXCEPT !.pages = Append(@, m.page)]]
            ELSE flat[i]]
    ELSE Append(flat, [key |-> m.num,
                       value |-> [title |-> m.title, pages |-> <<m.page>>,
                                  content |-> <<>>]])

\* identify_sections over the (page number, text) pairs of extract_all_text
IdentifySections(pages_text) ==
    LET found == Flatten([n \in 1..Len(pages_text) |-> PageDetections(n, pages_text[n])])
        F[i \in 0..Len(found)] ==
            IF i = 0 THEN <<>> ELSE StoreDetection(F[i-1], found[i])
    IN F[Len(found)]

(***************************************************************************)
(* IBIndexer._section_sort_key, _build_hierarchical_sections               *)
(***************************************************************************)
\* a mutant of SectionSortKey: the characters of the section number, which
\* compare as the string does
SectionSortKeyLexical(section_num) ==
    [k \in 1..Len(section_num) |->
        IF section_num[k] = "." THEN 0 ELSE DigitVal(section_num[k]) + 1]

\* tuple(int(x) for x in section_num.split('.'))
SectionSortKey(section_num) ==
    [k \in 1..Len(Split(section_num, ".")) |-> ToInt(Split(section_num, ".")[k])]

\* a < b for tuples of integers
TupleLess(a, b) ==
    \E k \in 1..(Len(b)) :
        /\ \A j \in 1..(k - 1) : j <= Len(a) /\ a[j] = b[j]
        /\ (k > Len(a) \/ a[k] < b[k])
        /\ k - 1 <= Len(a)

\* sorted(items, key=...): ascending by key, items with equal keys in their
\* original order
SortedByKey(flat) ==
    LET before(i, j) ==
            \/ TupleLess(SectionSortKey(flat[i].key), SectionSortKey(flat[j].key))
            \/ (SectionSortKey(flat[i].key) = SectionSortKey(flat[j].key) /\ i < j)
        rank(j) == Cardinality({i \in 1..Len(flat) : before(i, j)})
    IN [r \in 1..Len(flat) |-> flat[CHOOSE j \in 1..Len(flat) : rank(j) = r - 1]]

\* a mutant of PlaceSection: every section becomes a top-level node
PlaceSectionTopLevel(hierarchical, item) ==
    DictSet(hierarchical, item.key,
            [title |-> item.value.title, pages |-> item.value.pages,
             pages_type |-> "list", subsections |-> <<>>])

\* one section placed in the hierarchy: a single-component number becomes a
\* top-level node, any other goes into the subsections of the top-level node
\* of its first component if that node is there, and is dropped if not
PlaceSection(hierarchical, item) ==
    LET parts == Split(item.key, ".")
    IN IF Len(parts) = 1
       THEN DictSet(hierarchical, item.key,
                    [title |-> item.value.title, pages |-> item.value.pages,
                     pages_type |-> "list", subsections |-> <<>>])
       ELSE IF HasKey(hierarchical, parts[1])
            THEN [i \in 1..Len(hierarchical) |->
                    IF hierarchical[i].key = parts[1]
                    THEN [key |-> hierarchical[i].key,
                          value |-> [hierarchical[i].value EXCEPT !.subsections =
                                       DictSet(@, item.key,
                                               [title |-> item.value.title,
                                                pages |-> item.value.pages,
                                                pages_type |-> "list"])]]
                    ELSE hierarchical[i]]
            ELSE hierarchical

\* a mutant of BuildHierarchicalSections: the sections in the order they were
\* detected in
BuildHierarchicalUnsorted(flat) ==
    LET F[i \in 0..Len(flat)] ==
            IF i = 0 THEN <<>> ELSE PlaceSection(F[i-1], flat[i])
    IN F[Len(flat)]

\* _build_hierarchical_sections over self.sections
BuildHierarchicalSections(flat) ==
    LET ordered == SortedByKey(flat)
        F[i \in 0..Len(flat)] ==
            IF i = 0 THEN <<>> ELSE PlaceSection(F[i-1], ordered[i])
    IN F[Len(flat)]

(***************************************************************************)
(* IBIndexer._extract_metadata, create_index                               *)
(***************************************************************************)
\* the number of pages _extract_metadata looks at
MetadataPages == 5

\* re.search(r'RO\d+', text): the leftmost "RO" followed by digits, with all
\* the digits that follow; <<>> if there is none
RoMatch(text) ==
    LET starts == {i \in 1..(Len(text) - 2) :
                     text[i] = "R" /\ text[i+1] = "O" /\ text[i+2] \in Digits}
    IN IF starts = {} THEN <<>>
       ELSE SubSeq(text, SetMin(starts), DigitRunEnd(text, SetMin(starts) + 2))

\* the first value among the first pages that is not empty, "" if none
FirstFound(values) ==
    IF \A i \in 1..Len(values) : values[i] = <<>> THEN <<>>
    ELSE values[SetMin({i \in 1..Len(values) : values[i] # <<>>})]

\* _extract_metadata over self.extracted_text[:5]
ExtractMetadata(pages_text) ==
    LET first == Prefix(pages_text, MetadataPages)
    IN << [key |-> <<"d","r","u","g","_","n","a","m","e">>,
           value |-> FirstFound([i \in 1..Len(first) |->
                        IF Contains(Lower(first[i]), <<"p","r","a","l","s","e","t","i","n","i","b">>)
                        THEN <<"P","r","a","l","s","e","t","i","n","i","b">> ELSE <<>>])],
          [key |-> <<"t","r","a","d","e","_","n","a","m","e">>,
           value |-> FirstFound([i \in 1..Len(first) |->
                        IF Contains(first[i], <<"G","A","V","R","E","T","O">>) THEN <<"G","A","V","R","E","T","O">> ELSE <<>>])],
          [key |-> <<"r","o","_","n","u","m","b","e","r">>,
           value |-> FirstFound([i \in 1..Len(first) |-> RoMatch(first[i])])],
          [key |-> <<"v","e","r","s","i","o","n">>, value |-> <<>>],
          [key |-> <<"d","a","t","e">>, value |-> <<>>] >>

\* the index dict create_index and save_index assemble from the sections
\* identified in the pages; the source documents have no tables
AssembleIndex(pages_text, flat) ==
    [metadata |-> ExtractMetadata(pages_text),
     sections |-> BuildHierarchicalSections(flat),
     tables |-> <<>>,
     total_pages |-> Len(pages_text)]

\* create_index on a new indexer
CreateIndex(pages_text) == AssembleIndex(pages_text, IdentifySections(pages_text))

(***************************************************************************)
(* json.dump and json.load of the index (save_index, index_ib)             *)
(***************************************************************************)
\* a character as json.dump writes it inside a string (ensure_ascii=False)
EscapeChar(c) ==
    IF c = "\"" THEN <<"\\", "\"">>
    ELSE IF c = "\\" THEN <<"\\", "\\">>
    ELSE IF c = "\n" THEN <<"\\", "n">>
    ELSE IF c = "\t" THEN <<"\\", "t">>
    ELSE <<c>>

\* the text of a string between its quotes in the file
Escape(s) == Flatten([i \in 1..Len(s) |-> EscapeChar(s[i])])

\* the backslash at i opens an escape: the backslashes right before it pair up
OpensEscape(t, i) ==
    /\ t[i] = "\\"
    /\ Cardinality({k \in 1..(i - 1) : \A m \in k..(i - 1) : t[m] = "\\"}) % 2 = 0

\* the character an escape stands for, from the character after the backslash
EscapedChar(c) == IF c = "n" THEN "\n" ELSE IF c = "t" THEN "\t" ELSE c

\* a mutant of Unescape: \n in the file is left as a backslash and an n
UnescapeKeepNewline(t) ==
    Flatten([i \in 1..Len(t) |->
        IF OpensEscape(t, i) THEN (IF t[i+1] = "n" THEN <<"\\", "n">> ELSE <<>>)
        ELSE IF i > 1 /\ OpensEscape(t, i - 1)
             THEN (IF t[i] = "n" THEN <<>> ELSE <<EscapedChar(t[i])>>)
             ELSE <<t[i]>>])

\* the string json.load reads from the text between the quotes
Unescape(t) ==
    Flatten([i \in 1..Len(t) |->
        IF OpensEscape(t, i) THEN <<>>
        ELSE IF i > 1 /\ OpensEscape(t, i - 1) THEN <<EscapedChar(t[i])>>
             ELSE <<t[i]>>])

JString(s) == [json |-> "string", text |-> Escape(s)]
JNumber(n) == [json |-> "number", text |-> IntToStr(n)]
JNull == [json |-> "null"]
JArray(items_) == [json |-> "array", items |-> items_]
JObject(members_) == [json |-> "object", members |-> members_]

\* a dict with string keys written as an object, its values written by conv
DumpDict(d, conv(_)) ==
    JObject([i \in 1..Len(d) |-> [name |-> Escape(d[i].key), value |-> conv(d[i].value)]])

\* a page list written: an array of numbers, or null
DumpPages(node) ==
    IF node.pages_type = "list"
    THEN JArray([k \in 1..Len(node.pages) |-> JNumber(node.pages[k])])
    ELSE JNull

\* a subsection node written
DumpSubsection(node) ==
    JObject(<< [name |-> <<"t","i","t","l","e">>, value |-> JString(node.title)],
               [name |-> <<"p","a","g","e","s">>, value |-> DumpPages(node)] >>)

\* a mutant of DumpSection: the subsections are not written
DumpSectionFlat(node) ==
    JObject(<< [name |-> <<"t","i","t","l","e">>, value |-> JString(node.title)],
               [name |-> <<"p","a","g","e","s">>, value |-> DumpPages(node)],
               [name |-> <<"s","u","b","s","e","c","t","i","o","n","s">>, value |-> JObject(<<>>)] >>)

\* a top-level section node written
DumpSection(node) ==
    JObject(<< [name |-> <<"t","i","t","l","e">>, value |-> JString(node.title)],
               [name |-> <<"p","a","g","e","s">>, value |-> DumpPages(node)],
               [name |-> <<"s","u","b","s","e","c","t","i","o","n","s">>,
                value |-> DumpDict(node.subsections, DumpSubsection)] >>)

\* json.dump(index, f, indent=2, ensure_ascii=False): the document written
DumpIndex(index) ==
    JObject(<< [name |-> <<"m","e","t","a","d","a","t","a">>, value |-> DumpDict(index.metadata, JString)],
               [name |-> <<"s","e","c","t","i","o","n","s">>, value |-> DumpDict(index.sections, DumpSection)],
               [name |-> <<"t","a","b","l","e","s">>, value |-> JArray(<<>>)],
               [name |-> <<"t","o","t","a","l","_","p","a","g","e","s">>, value |-> JNumber(index.total_pages)] >>)

\* the value of the member of an object that the dict read from it has under
\* key k: the last member of that name
Member(j, k) ==
    j.members[SetMax({i \in 1..Len(j.members) : Unescape(j.members[i].name) = k})].value

\* an object read as a dict, its values read by conv
LoadDict(j, conv(_)) ==
    LET F[i \in 0..Len(j.members)] ==
            IF i = 0 THEN <<>>
            ELSE DictSet(F[i-1], Unescape(j.members[i].name), conv(j.members[i].value))
    IN F[Len(j.members)]

LoadString(j) == Unescape(j.text)

\* a subsection node read
LoadSubsection(j) ==
    [title |-> LoadString(Member(j, <<"t","i","t","l","e">>)),
     pages |-> IF Member(j, <<"p","a","g","e","s">>).json = "array"
               THEN [k \in 1..Len(Member(j, <<"p","a","g","e","s">>).items) |->
                        ToInt(Member(j, <<"p","a","g","e","s">>).items[k].text)]
               ELSE <<>>,
     pages_type |-> IF Member(j, <<"p","a","g","e","s">>).json = "array" THEN "list" ELSE "null"]

\* a top-level section node read
LoadSection(j) ==
    [title |-> LoadSubsection(j).title,
     pages |-> LoadSubsection(j).pages,
     pages_type |-> LoadSubsection(j).pages_type,
     subsections |-> LoadDict(Member(j, <<"s","u","b","s","e","c","t","i","o","n","s">>), LoadSubsection)]

\* json.load(f) on the document save_index wrote
LoadIndex(j) ==
    [metadata |-> LoadDict(Member(j, <<"m","e","t","a","d","a","t","a">>), LoadString),
     sections |-> LoadDict(Member(j, <<"s","e","c","t","i","o","n","s">>), LoadSection),
     tables |-> <<>>,
     total_pages |-> ToInt(Member(j, <<"t","o","t","a","l","_","p","a","g","e","s">>).text)]

(***************************************************************************)
(* parse_mapping_file and match_all_fields as whole calls                  *)
(***************************************************************************)
\* parse_mapping_file over the lines of a file: the dict it returns
ParseMappingFile(lines) ==
    LET F[i \in 0..Len(lines)] ==
            IF i = 0 THEN <<>>
            ELSE IF RowContributes(lines[i])
                 THEN DictSet(F[i-1], FindPlaceholder(Cell(lines[i], 1)), RowRecord(lines[i]))
                 ELSE F[i-1]
    IN F[Len(lines)]

\* match_all_fields on an index: the dict it returns when the gateway
\* answers the request of the i-th field with replies_[i]
ResolveAll(index, has_client, mapping, replies_) ==
    [i \in 1..Len(mapping) |->
        ResolveField(index, has_client, mapping[i].key, mapping[i].value,
                     replies_[i])]

StoreAll(mapping, resolved) ==
    LET F[i \in 0..Len(mapping)] ==
            IF i = 0 THEN NewResult
            ELSE StoreResult(F[i-1], mapping[i].key, resolved[i])
    IN F[Len(mapping)]

MatchAllFields(index, has_client, mapping, replies_) ==
    StoreAll(mapping, ResolveAll(index, has_client, mapping, replies_))

(***************************************************************************)
(* Stage 1 on a new document, the index file, and stage 1 of a later run   *)
(***************************************************************************)
MaxIndexPages == 2

\* the text of single pages of source documents
PageTexts ==
    { <<"1","."," ","S","U","M","M","A","R","Y","\n","1",".","2"," ","I","N","D","I","C","A","T","I","O","N","\n","T","h","e"," ","d","r","u","g"," ","R","O","5","5","4","1","2","6","7">>,
      <<"1",".","1","0"," ","D","O","S","I","N","G","\n","1",".","9"," ","S","A","F","E","T","Y","\n","3",".","1"," ","O","R","P","H","A","N">>,
      <<"5","."," ","S","A","F","E","T","Y","\n","D","A","T","A","\n","5",".","5",".","1"," ","D","E","A","T","H","S">>,
      <<"5",".","5",".","1"," ","D","E","A","T","H","S","\n","5","."," ","S","A","F","E","T","Y","\n","3",".","1"," ","O","R","P","H","A","N">>,
      <<"2"," ","D","A","T","A"," ","(","A","-","B",")","\n","1","."," ","S","U","M","M","A","R","Y","\n","1","."," ","A","B">>,
      <<"p","r","a","l","s","e","t","i","n","i","b"," ","(","G","A","V","R","E","T","O",")","\n","1",".","2"," ","I","n","d","i","c","a","t","i","o","n","\n","0","1"," ","A","N","N","E","X">> }

\* the source documents: the text of their pages
SourceTexts == SeqsUpTo(PageTexts, MaxIndexPages)

RowDeathsList == <<"|"," ","[","I","N","S","E","R","T","_","D","E","A","T","H","_","L","I","S","T","]"," ","D","e","a","t","h","s"," ","|"," ","S","e","c","t","i","o","n"," ","5",".","5",".","1"," ","|"," ","-"," ","|"," ","|">>
RowDosingSafety == <<"|"," ","[","I","N","S","E","R","T","_","D","O","S","I","N","G","]"," ","D","o","s","i","n","g"," ","|"," ","S","e","c","t","i","o","n","s"," ","1",".","9"," ","+"," ","1",".","1","0"," ","|"," ","-"," ","|"," ","S","u","m","m","a","r","i","z","e"," ","|">>

\* the mapping file of the runs on built indexes
IndexRunLines == <<RowHeader, RowIndication, RowSafety, RowSummary, RowDeathsList,
                   RowDosingSafety>>

IndexInit ==
    /\ PagesIdle
    /\ TypeIdle
    /\ ParseIdle
    /\ MatchIdle
    /\ ValidateIdle
    /\ PipeIdle
    /\ extracted_text \in SourceTexts
    /\ indexer_sections = <<>>
    /\ created_index = <<>>
    /\ index_file = <<>>
    /\ loaded_index = <<>>
    /\ \E has_client \in BOOLEAN, reply \in GatewayReplies :
          index_run = [mapping |-> ParseMappingFile(IndexRunLines),
                       has_client |-> has_client,
                       replies |-> [i \in 1..Len(ParseMappingFile(IndexRunLines)) |-> reply]]
    /\ created_matched = <<>>
    /\ loaded_matched = <<>>
    /\ index_pc = "create"

\* indexer.create_index() on a new indexer: self.sections is set by
\* identify_sections, the index is returned
CallCreateIndex ==
    /\ index_pc = "create"
    /\ indexer_sections' = IdentifySections(extracted_text)
    /\ created_index' = CreateIndex(extracted_text)
    /\ index_pc' = "save"
    /\ UNCHANGED <<extracted_text, index_file, loaded_index, index_run,
                   created_matched, loaded_matched,
                   pagesVars, typeVars, parseVars, matchVars, validateVars, pipeVars>>

\* indexer.save_index(path): the index is assembled again (by create_index
\* when no section was identified) and written
CallSaveIndex ==
    /\ index_pc = "save"
    /\ index_file' = DumpIndex(IF indexer_sections = <<>>
                               THEN CreateIndex(extracted_text)
                               ELSE AssembleIndex(extracted_text, indexer_sections))
    /\ index_pc' = "load"
    /\ UNCHANGED <<extracted_text, indexer_sections, created_index, loaded_index,
                   index_run, created_matched, loaded_matched,
                   pagesVars, typeVars, parseVars, matchVars, validateVars, pipeVars>>

\* index_ib of a later run: the index file exists and is read
CallLoadIndex ==
    /\ index_pc = "load"
    /\ loaded_index' = LoadIndex(index_file)
    /\ index_pc' = "match"
    /\ UNCHANGED <<extracted_text, indexer_sections, created_index, index_file,
                   index_run, created_matched, loaded_matched,
                   pagesVars, typeVars, parseVars, matchVars, validateVars, pipeVars>>

\* match_all_fields of the run that built the index and of the run that
\* read it, with the same mapping, client and gateway replies
MatchOnBoth ==
    /\ index_pc = "match"
    /\ created_matched' = MatchAllFields(created_index, index_run.has_client,
                                         index_run.mapping, index_run.replies)
    /\ loaded_matched' = MatchAllFields(loaded_index, index_run.has_client,
                                        index_run.mapping, index_run.replies)
    /\ index_pc' = "matched"
    /\ UNCHANGED <<extracted_text, indexer_sections, created_index, index_file,
                   loaded_index, index_run,
                   pagesVars, typeVars, parseVars, matchVars, validateVars, pipeVars>>

IndexNext == CallCreateIndex \/ CallSaveIndex \/ CallLoadIndex \/ MatchOnBoth

SpecIndex == IndexInit /\ [][IndexNext]_vars

(***************************************************************************)
(* TemplatePopulator: the template as the texts of its paragraphs, in the  *)
(* order the populator visits them (body, table cells, headers, footers)   *)
(***************************************************************************)
\* _extract_placeholders: set(re.findall(r'\[INSERT_[A-Z0-9_]+\]', text))
ExtractPlaceholders(text) ==
    {SubSeq(text, i, PlaceholderEnd(text, i)) :
        i \in {j \in 1..Len(text) : PlaceholderEnd(text, j) > 0}}

\* find_all_placeholders: the placeholders of all paragraphs
FindAllPlaceholders(doc) == UNION {ExtractPlaceholders(doc[p]) : p \in 1..Len(doc)}

RECURSIVE ReplaceAll(_, _, _)
\* full_text.replace(old_text, new_text) for a non-empty old_text: the
\* occurrences are replaced from left to right
ReplaceAll(s, old_text, new_text) ==
    IF Occurrences(s, old_text) = {} THEN s
    ELSE SubSeq(s, 1, SetMin(Occurrences(s, old_text)) - 1) \o new_text
         \o ReplaceAll(SubSeq(s, SetMin(Occurrences(s, old_text)) + Len(old_text), Len(s)),
                       old_text, new_text)

\* replace_placeholder: the document after it; every paragraph that holds
\* the placeholder gets its text replaced. Content that is empty is
\* written as "[NO CONTENT]"
ReplacePlaceholder(doc, placeholder, new_content) ==
    [p \in 1..Len(doc) |->
        IF Contains(doc[p], placeholder)
        THEN ReplaceAll(doc[p], placeholder,
                        IF new_content = <<>> THEN <<"[","N","O"," ","C","O","N","T","E","N","T","]">> ELSE new_content)
        ELSE doc[p]]

\* replacements_made: _replace_in_paragraph returns 1 for every paragraph
\* that holds the placeholder
ReplacementsMade(doc, placeholder) ==
    Cardinality({p \in 1..Len(doc) : Contains(doc[p], placeholder)})

\* the branch one pass of the loop of populate_all_fields takes
FieldOutcome(doc, found, placeholder, content_) ==
    IF content_ = <<>> \/ content_ = <<"N","/","A">> THEN "no_content"
    ELSE IF placeholder \notin found THEN "not_in_template"
    ELSE IF ReplacementsMade(doc, placeholder) > 0 THEN "replaced"
    ELSE "not_replaced"

\* one pass of the loop of populate_all_fields: the document, the two
\* counts and the branch taken
PopulateField(run, found, placeholder, content_) ==
    IF FieldOutcome(run.doc, found, placeholder, content_) = "replaced"
    THEN [doc |-> ReplacePlaceholder(run.doc, placeholder, content_),
          populated |-> run.populated + 1, skipped |-> run.skipped,
          outcomes |-> Append(run.outcomes, "replaced")]
    ELSE [run EXCEPT !.skipped = @ + 1,
                     !.outcomes = Append(@, FieldOutcome(run.doc, found, placeholder,
                                                         content_))]

\* the loop of populate_all_fields over field_content_dict.items(), on the
\* placeholders found
PopulateLoop(doc, found, field_content_dict) ==
    LET F[i \in 0..Len(field_content_dict)] ==
            IF i = 0
            THEN [doc |-> doc, populated |-> 0, skipped |-> 0, outcomes |-> <<>>]
            ELSE PopulateField(F[i-1], found, field_content_dict[i].key,
                               field_content_dict[i].value)
    IN F[Len(field_content_dict)]

\* populate_all_fields: the placeholders are looked for again when none is
\* known
PopulateAllFields(doc, placeholders_found, field_content_dict) ==
    PopulateLoop(doc,
                 IF placeholders_found = {} THEN FindAllPlaceholders(doc)
                 ELSE placeholders_found,
                 field_content_dict)

\* a mutant of ReportLists: the tests are made one after the other and not
\* as a chain, so that the last else belongs to the test for errors alone
ReportListsUnchained(content_) ==
    (IF content_ = <<>> \/ content_ = <<"N","/","A">> \/ IsBlank(content_)
     THEN {"empty"} ELSE {})
    \cup (IF Contains(content_, <<"N","O","T"," ","A","V","A","I","L","A","B","L","E"," ","I","N"," ","I","B">>) \/ Contains(content_, <<"R","E","Q","U","I","R","E","S",":">>)
          THEN {"not_in_ib"} ELSE {})
    \cup (IF Contains(content_, <<"[","E","R","R","O","R">>) \/ Contains(Lower(content_), <<"e","r","r","o","r">>)
          THEN {"errors"} ELSE {"populated"})

\* the lists of the report the if/elif chain of generate_mapping_report
\* appends a placeholder with this content to
ReportLists(content_) ==
    IF content_ = <<>> \/ content_ = <<"N","/","A">> \/ IsBlank(content_) THEN {"empty"}
    ELSE IF Contains(content_, <<"N","O","T"," ","A","V","A","I","L","A","B","L","E"," ","I","N"," ","I","B">>) \/ Contains(content_, <<"R","E","Q","U","I","R","E","S",":">>)
         THEN {"not_in_ib"}
    ELSE IF Contains(content_, <<"[","E","R","R","O","R">>) \/ Contains(Lower(content_), <<"e","r","r","o","r">>)
         THEN {"errors"}
    ELSE {"populated"}

\* one list of the report: the placeholders appended to it, in the order
\* of field_content_dict
ReportList(field_content_dict, list) ==
    LET F[i \in 0..Len(field_content_dict)] ==
            IF i = 0 THEN <<>>
            ELSE IF list \in ReportLists(field_content_dict[i].value)
                 THEN Append(F[i-1], field_content_dict[i].key)
                 ELSE F[i-1]
    IN F[Len(field_content_dict)]

\* generate_mapping_report
GenerateMappingReport(field_content_dict) ==
    [populated |-> ReportList(field_content_dict, "populated"),
     empty |-> ReportList(field_content_dict, "empty"),
     not_in_ib |-> ReportList(field_content_dict, "not_in_ib"),
     errors |-> ReportList(field_content_dict, "errors")]

(***************************************************************************)
(* main() and IBtoDSRPipeline: runs of the command, one after the other,   *)
(* on the same index path                                                  *)
(***************************************************************************)
MaxRuns == 2

\* a file that is not there
Missing == [exists |-> FALSE, readable |-> FALSE, data |-> <<>>]

\* a file that is there and cannot be read as what it should be
Unreadable == [exists |-> TRUE, readable |-> FALSE, data |-> <<>>]

File(data_) == [exists |-> TRUE, readable |-> TRUE, data |-> data_]

\* the page texts of two brochures
PdfA == << <<"1","."," ","S","U","M","M","A","R","Y","\n","1",".","2"," ","I","N","D","I","C","A","T","I","O","N","\n","T","h","e"," ","d","r","u","g"," ","R","O","5","5","4","1","2","6","7">>,
           <<"5","."," ","S","A","F","E","T","Y","\n","D","A","T","A","\n","5",".","5",".","1"," ","D","E","A","T","H","S">> >>
PdfB == << <<"2"," ","D","A","T","A"," ","(","A","-","B",")","\n","1","."," ","S","U","M","M","A","R","Y","\n","1","."," ","A","B">> >>

RowErrors ==
    <<"|"," ","[","I","N","S","E","R","T","_","E","R","R","O","R","S","]"," ","M","e","d","i","c","a","t","i","o","n"," ","e","r","r","o","r","s"," ","|"," ","S","a","f","e","t","y"," ","D","a","t","a","b","a","s","e"," ","|"," ","N","/","A"," ","|"," ","m","e","d","i","c","a","t","i","o","n"," ","e","r","r","o","r"," ","r","e","p","o","r","t","s"," ","|">>

MappingFull == <<RowHeader, RowIndication, RowSummary, RowDeaths, RowErrors>>

\* a template with every placeholder of the mapping, one of them twice
TemplateAll ==
    << <<"D","r","u","g"," ","S","a","f","e","t","y"," ","R","e","p","o","r","t">>,
       <<"I","n","d","i","c","a","t","i","o","n",":"," ","[","I","N","S","E","R","T","_","I","N","D","I","C","A","T","I","O","N","]">>,
       <<"[","I","N","S","E","R","T","_","S","U","M","M","A","R","Y","]"," ","S","e","e"," ","a","l","s","o"," ","[","I","N","S","E","R","T","_","S","U","M","M","A","R","Y","]",".">>,
       <<"D","e","a","t","h","s",":"," ","[","I","N","S","E","R","T","_","D","E","A","T","H","S","]"," ","E","r","r","o","r","s",":"," ","[","I","N","S","E","R","T","_","E","R","R","O","R","S","]">> >>

\* a template without the placeholders of two fields of the mapping
TemplatePartial ==
    << <<"I","n","d","i","c","a","t","i","o","n",":"," ","[","I","N","S","E","R","T","_","I","N","D","I","C","A","T","I","O","N","]">>,
       <<"D","e","a","t","h","s",":"," ","[","I","N","S","E","R","T","_","D","E","A","T","H","S","]">>,
       <<"H","i","s","t","o","r","y",":"," ","[","I","N","S","E","R","T","_","H","I","S","T","O","R","Y","]">> >>

PdfFiles == {File(PdfA), File(PdfB)}
PdfInputs == PdfFiles \cup {Missing, Unreadable}
TemplateInputs == {File(TemplateAll), File(TemplatePartial), Missing, Unreadable}
MappingInputs == {File(MappingFull), File(<<RowHeader>>), Missing, Unreadable}

\* what the gateway does with the requests of a run
PipelineReplies ==
    GatewayReplies
    \cup { [ok |-> FALSE, text |-> <<"C","o","n","n","e","c","t","i","o","n"," ","e","r","r","o","r",".">>],
           [ok |-> TRUE, text |-> <<" ","\n">>] }

\* a new pipeline object: ib_index, mapping and matched_content are None
NewPipeline == [ib_index |-> <<>>, mapping |-> <<>>, matched_content |-> <<>>]

\* the command is started: the files at the paths of its arguments, and no
\* index file yet
PipelineInit ==
    /\ PagesIdle
    /\ TypeIdle
    /\ ParseIdle
    /\ MatchIdle
    /\ ValidateIdle
    /\ IndexIdle
    /\ \E force \in BOOLEAN, key \in BOOLEAN :
          config = [force_reindex |-> force, openai_api_key |-> key]
    /\ ib_pdf \in PdfInputs
    /\ template_docx \in TemplateInputs
    /\ mapping_md \in MappingInputs
    /\ index_json = Missing
    /\ written = {}
    /\ pipeline = NewPipeline
    /\ populator = <<>>
    /\ \E reply \in PipelineReplies : gateway = [reply |-> reply, requests |-> 0]
    /\ stages = <<>>
    /\ exit_code = -1
    /\ run_no = 1
    /\ pipe_pc = "main"

\* a mutant of RequiredInputs: the template is not looked for
RequiredInputsNoTemplate == {"ib_pdf_path", "mapping_file_path"}

\* the keys main() validates
RequiredInputs == {"ib_pdf_path", "template_path", "mapping_file_path"}

\* Path(config[key]).exists()
InputExists(key) ==
    IF key = "ib_pdf_path" THEN ib_pdf.exists
    ELSE IF key = "template_path" THEN template_docx.exists
    ELSE mapping_md.exists

\* main(): the input files are validated; one that is missing ends the
\* process with sys.exit(1) before the pipeline is made
MainValidate ==
    /\ pipe_pc = "main"
    /\ IF \A key \in RequiredInputs : InputExists(key)
       THEN pipe_pc' = "stage1" /\ UNCHANGED exit_code
       ELSE pipe_pc' = "exited" /\ exit_code' = 1
    /\ UNCHANGED <<config, ib_pdf, template_docx, mapping_md, index_json, written,
                   pipeline, populator, gateway, stages, run_no,
                   pagesVars, typeVars, parseVars, matchVars, validateVars, indexVars>>

\* what save_index writes: the index assembled again from the indexer
SavedIndex(pages_text, sections) ==
    DumpIndex(IF sections = <<>> THEN CreateIndex(pages_text)
              ELSE AssembleIndex(pages_text, sections))

\* index_path.exists() and not self.config.get('force_reindex', False)
ReusesIndex(force_reindex) == index_json.exists /\ ~force_reindex

\* stage 1, index_ib: the index file is read if it is there and no rebuild
\* is forced; else the index is built from the PDF and written
IndexIb ==
    /\ pipe_pc = "stage1"
    /\ IF ~ib_pdf.exists
       THEN /\ stages' = Append(stages, [stage |-> "index", ok |-> FALSE])
            /\ pipe_pc' = "failed"
            /\ UNCHANGED <<pipeline, index_json, written>>
       ELSE IF ReusesIndex(config.force_reindex)
       THEN /\ pipeline' = [pipeline EXCEPT !.ib_index = LoadIndex(index_json.data)]
            /\ stages' = Append(stages, [stage |-> "index", ok |-> TRUE])
            /\ pipe_pc' = "stage2"
            /\ UNCHANGED <<index_json, written>>
       ELSE IF ~ib_pdf.readable
       THEN /\ stages' = Append(stages, [stage |-> "index", ok |-> FALSE])
            /\ pipe_pc' = "failed"
            /\ UNCHANGED <<pipeline, index_json, written>>
       ELSE /\ pipeline' = [pipeline EXCEPT !.ib_index = CreateIndex(ib_pdf.data)]
            /\ index_json' = File(SavedIndex(ib_pdf.data, IdentifySections(ib_pdf.data)))
            /\ written' = written \cup {"index"}
            /\ stages' = Append(stages, [stage |-> "index", ok |-> TRUE])
            /\ pipe_pc' = "stage2"
    /\ UNCHANGED <<config, ib_pdf, template_docx, mapping_md, populator, gateway,
                   exit_code, run_no,
                   pagesVars, typeVars, parseVars, matchVars, validateVars, indexVars>>

\* the number of requests the resolutions sent to the gateway
RequestsSent(resolved) ==
    LET F[i \in 0..Len(resolved)] ==
            IF i = 0 THEN 0 ELSE F[i-1] + Len(resolved[i].requests)
    IN F[Len(resolved)]

\* stage 2, match_content: the mapping file is parsed, every field is
\* matched, matched_content.json is written; a mapping file that is not
\* UTF-8 text makes f.read() raise
MatchContent ==
    /\ pipe_pc = "stage2"
    /\ IF ~mapping_md.exists \/ ~mapping_md.readable
       THEN /\ stages' = Append(stages, [stage |-> "match", ok |-> FALSE])
            /\ pipe_pc' = "failed"
            /\ UNCHANGED <<pipeline, gateway, written>>
       ELSE \E mapping \in {ParseMappingFile(mapping_md.data)} :
            \E resolved \in {ResolveAll(pipeline.ib_index, config.openai_api_key, mapping,
                                        [i \in 1..Len(mapping) |-> gateway.reply])} :
               /\ pipeline' = [pipeline EXCEPT !.mapping = mapping,
                                               !.matched_content = StoreAll(mapping, resolved)]
               /\ gateway' = [gateway EXCEPT !.requests = @ + RequestsSent(resolved)]
               /\ written' = written \cup {"matched_content"}
               /\ stages' = Append(stages, [stage |-> "match", ok |-> TRUE])
               /\ pipe_pc' = "stage3"
    /\ UNCHANGED <<config, ib_pdf, template_docx, mapping_md, index_json, populator,
                   exit_code, run_no,
                   pagesVars, typeVars, parseVars, matchVars, validateVars, indexVars>>

\* stage 3, populate_template: the template is opened, its placeholders are
\* found, the fields are populated, the report is made, and the document
\* and the report are written
PopulateTemplate ==
    /\ pipe_pc = "stage3"
    /\ IF ~template_docx.exists \/ ~template_docx.readable
       THEN /\ stages' = Append(stages, [stage |-> "populate", ok |-> FALSE])
            /\ pipe_pc' = "failed"
            /\ UNCHANGED <<populator, written>>
       ELSE \E found \in {FindAllPlaceholders(template_docx.data)} :
            \E run \in {PopulateAllFields(template_docx.data, found,
                                          pipeline.matched_content)} :
               /\ populator' = [placeholders_found |-> found,
                                doc |-> run.doc,
                                populated |-> run.populated,
                                skipped |-> run.skipped,
                                outcomes |-> run.outcomes,
                                report |-> GenerateMappingReport(pipeline.matched_content)]
               /\ written' = written \cup {"output", "report"}
               /\ stages' = Append(stages, [stage |-> "populate", ok |-> TRUE])
               /\ pipe_pc' = "done"
    /\ UNCHANGED <<config, ib_pdf, template_docx, mapping_md, index_json, pipeline,
                   gateway, exit_code, run_no,
                   pagesVars, typeVars, parseVars, matchVars, validateVars, indexVars>>

\* a mutant of ExitCode: the process always exits with 0
ExitCodeAlwaysZero(success) == 0

\* sys.exit(0 if success else 1)
ExitCode(success) == IF success THEN 0 ELSE 1

\* run_full_pipeline returns True after stage 3, False from its handler when
\* a stage raised, and main() exits
MainExit ==
    /\ pipe_pc \in {"done", "failed"}
    /\ exit_code' = ExitCode(pipe_pc = "done")
    /\ pipe_pc' = "exited"
    /\ UNCHANGED <<config, ib_pdf, template_docx, mapping_md, index_json, written,
                   pipeline, populator, gateway, stages, run_no,
                   pagesVars, typeVars, parseVars, matchVars, validateVars, indexVars>>

\* the command is run again, on the same brochure, on another one or on a
\* path where no file is, with or without --force-reindex: the index file of
\* the run before is still there
NextRun ==
    /\ pipe_pc = "exited"
    /\ run_no < MaxRuns
    /\ run_no' = run_no + 1
    /\ ib_pdf' \in PdfFiles \cup {Missing}
    /\ \E force \in BOOLEAN : config' = [config EXCEPT !.force_reindex = force]
    /\ written' = {}
    /\ pipeline' = NewPipeline
    /\ populator' = <<>>
    /\ gateway' = [gateway EXCEPT !.requests = 0]
    /\ stages' = <<>>
    /\ exit_code' = -1
    /\ pipe_pc' = "main"
    /\ UNCHANGED <<template_docx, mapping_md, index_json,
                   pagesVars, typeVars, parseVars, matchVars, validateVars, indexVars>>

PipelineNext ==
    MainValidate \/ IndexIb \/ MatchContent \/ PopulateTemplate \/ MainExit \/ NextRun

SpecPipeline == PipelineInit /\ [][PipelineNext]_vars

(***************************************************************************)
(* Claims about match_all_fields and stage 2                               *)
(***************************************************************************)
\* the run of match_all_fields has begun
Matching == match_pc \in {"loop", "returned", "saved"}

\* the resolution of the i-th field of the mapping raises on this index
\* (whatever the gateway replies: the gateway's own failure is caught inside
\* ai_extract)
FieldRaises(i) ==
    \A reply \in GatewayReplies :
        ResolveField(ib_index, client, mapping_dict[i].key, mapping_dict[i].value,
                     reply).exc

ErrorSentinel == <<"[","E","R","R","O","R"," ","E","X","T","R","A","C","T","I","N","G"," ","C","O","N","T","E","N","T",":"," ","'","N","o","n","e","T","y","p","e","'"," ","o","b","j","e","c","t"," ","i","s"," ","n","o","t"," ","s","u","b","s","c","r","i","p","t","a","b","l","e","]">>

\* C1: match_all_fields never fails as a whole: whatever the mapping and the
\* index, and also when the resolution of fields raises, no exception leaves
\* it, the result holds one entry for each placeholder processed so far, in
\* the order of the mapping, and the returned result has exactly the
\* placeholders of the mapping, in the mapping's order.
C1_OneEntryPerPlaceholder ==
    /\ match_pc # "raised"
    /\ Matching =>
          /\ Keys(matched_content) = SubSeq(Keys(mapping_dict), 1, current)
          /\ (match_pc # "loop" =>
                 /\ current = Len(mapping_dict)
                 /\ Keys(matched_content) = Keys(mapping_dict))

\* C1 witness: a run over three fields has returned although the resolution
\* of one of them raised
C1_Witness ==
    /\ match_pc = "returned"
    /\ Len(mapping_dict) = 3
    /\ \E i \in 1..Len(mapping_dict) : FieldRaises(i)
    /\ Keys(matched_content) = Keys(mapping_dict)

\* C2: a field whose resolution raises an exception with message m has the
\* content "[ERROR EXTRACTING CONTENT: m]", the fields after it are still
\* resolved, and every field that did not raise has the content it has in the
\* run where no field raises.
C2_ErrorSentinel ==
    Matching =>
        /\ \A i \in 1..current :
              IF FieldRaises(i)
              THEN DictGet(matched_content, mapping_dict[i].key) = ErrorSentinel
              ELSE DictGet(matched_content, mapping_dict[i].key)
                      = DictGet(ref_matched, mapping_dict[i].key)
        /\ \A i \in 1..Len(ref_matched) : ref_matched[i].value # ErrorSentinel
        /\ (match_pc # "loop" => current = Len(mapping_dict))

\* C2 witness: the first field raised, and the field after it was resolved
\* from the index all the same
C2_Witness ==
    /\ match_pc = "returned"
    /\ Len(mapping_dict) >= 2
    /\ FieldRaises(1)
    /\ matched_content[1].value = ErrorSentinel
    /\ ~FieldRaises(2)
    /\ matched_content[2].value = <<"I","n","d","i","c","a","t","i","o","n"," ","[","C","o","n","t","e","n","t"," ","f","r","o","m"," ","p","a","g","e"," ","1","2","]"," ","[","C","o","n","t","e","n","t"," ","f","r","o","m"," ","p","a","g","e"," ","1","3","]">>

\* C7: parsing a mapping file with no parseable row fails, and stage 2 does
\* not go on: match_all_fields never runs on an empty mapping and no result
\* is written for it.
C7_ZeroRowsFatal ==
    /\ (parse_pc = "returned" => mapping_dict # <<>>)
    /\ (match_pc # "idle" => mapping_dict # <<>>)

\* C7 witness: a file with a header row only has been parsed without an
\* error, matched and saved
C7_Witness ==
    /\ content = <<RowHeader>>
    /\ parse_pc = "returned"
    /\ mapping_dict = <<>>
    /\ match_pc = "saved"
    /\ saved_content = <<>>

\* C10: match_all_fields on an empty mapping returns an empty result and
\* sends no request to the synthesis gateway.
C10_EmptyMapping ==
    (Matching /\ mapping_dict = <<>>) =>
        /\ matched_content = <<>>
        /\ gateway_log = <<>>
        /\ delays = 0

\* C10 witness: a matcher with a gateway client has returned from an empty
\* mapping
C10_Witness ==
    /\ match_pc = "returned"
    /\ mapping_dict = <<>>
    /\ client
    /\ matched_content = <<>>
    /\ gateway_log = <<>>

(***************************************************************************)
(* Claims about the resolution of one field                                *)
(***************************************************************************)
\* the strategy of the i-th field of the mapping
Strategy(i) == mapping_dict[i].value.mapping_type

\* the content stored for the i-th field of the mapping
ContentOf(i) == DictGet(matched_content, mapping_dict[i].key)

\* C11: a synthesis_required field resolved by a matcher without a gateway
\* client has the content "[AI extraction skipped - no API key provided]",
\* and its resolution makes no section lookup, no page fetch and no gateway
\* call.
C11_SkippedWithoutGateway ==
    Matching =>
        \A i \in 1..current :
            (Strategy(i) = "synthesis_required" /\ ~client) =>
                /\ ContentOf(i) = <<"[","A","I"," ","e","x","t","r","a","c","t","i","o","n"," ","s","k","i","p","p","e","d"," ","-"," ","n","o"," ","A","P","I"," ","k","e","y"," ","p","r","o","v","i","d","e","d","]">>
                /\ field_trace[i] = [sections |-> 0, pages |-> 0, requests |-> 0, slept |-> 0]

\* C11 witness: no client, and a synthesis field whose section has a page
\* list that cannot be read: a lookup would have raised
C11_Witness ==
    /\ match_pc = "returned"
    /\ ~client
    /\ ib_index = IndexNull
    /\ content = <<RowSummary>>
    /\ Strategy(1) = "synthesis_required"
    /\ matched_content[1].value = <<"[","A","I"," ","e","x","t","r","a","c","t","i","o","n"," ","s","k","i","p","p","e","d"," ","-"," ","n","o"," ","A","P","I"," ","k","e","y"," ","p","r","o","v","i","d","e","d","]">>
    /\ field_trace[1].sections = 0

\* the index holds a node for the token, at the top level or nested, with a
\* page list that gives content
Resolves(token) ==
    \E t \in 1..Len(ib_index.sections) :
        LET top == ib_index.sections[t]
        IN \/ top.key = token /\ top.value.pages # <<>>
           \/ \E n \in 1..Len(top.value.subsections) :
                 /\ top.value.subsections[n].key = token
                 /\ top.value.subsections[n].value.pages # <<>>

\* no section token of the i-th field resolves and its page list is empty
NothingToExtract(i) ==
    /\ \A t \in Range(ExtractSectionNumbers(mapping_dict[i].value.ib_section)) :
          ~Resolves(t)
    /\ mapping_dict[i].value.ib_pages = <<>>

\* C12: a direct_extract field whose section reference holds no digit and
\* whose page list is empty has the content "[Content not found in IB]";
\* and a direct_extract field whose resolution does not raise has that
\* content exactly when none of its section tokens resolves to content and
\* its page list is empty.
C12_NotFoundExactly ==
    Matching =>
        \A i \in 1..current :
            (Strategy(i) = "direct_extract" /\ ~FieldRaises(i)) =>
                /\ (ContentOf(i) = <<"[","C","o","n","t","e","n","t"," ","n","o","t"," ","f","o","u","n","d"," ","i","n"," ","I","B","]">> <=> NothingToExtract(i))
                /\ ((/\ Range(mapping_dict[i].value.ib_section) \cap Digits = {}
                     /\ mapping_dict[i].value.ib_pages = <<>>)
                        => ContentOf(i) = <<"[","C","o","n","t","e","n","t"," ","n","o","t"," ","f","o","u","n","d"," ","i","n"," ","I","B","]">>)

\* C12 witness: "Background" and no pages, on an index with sections
C12_Witness ==
    /\ match_pc = "returned"
    /\ content = <<RowHistory>>
    /\ ib_index = IndexGood
    /\ Strategy(1) = "direct_extract"
    /\ mapping_dict[1].value.ib_pages = <<>>
    /\ matched_content[1].value = <<"[","C","o","n","t","e","n","t"," ","n","o","t"," ","f","o","u","n","d"," ","i","n"," ","I","B","]">>

\* the page lists of the nodes of the index that carry the token
PagesOfNode(token) ==
    UNION { (IF ib_index.sections[t].key = token
             THEN Range(ib_index.sections[t].value.pages) ELSE {})
            \cup UNION { Range(ib_index.sections[t].value.subsections[n].value.pages) :
                           n \in {m \in 1..Len(ib_index.sections[t].value.subsections) :
                                    ib_index.sections[t].value.subsections[m].key = token} }
          : t \in 1..Len(ib_index.sections) }

\* C13: the content of a direct_extract field holds, for each of its section
\* tokens found in the index, the content of every page of the node's page
\* list: no page of the list is left out.
C13_EveryPageFetched ==
    Matching =>
        \A i \in 1..current :
            (Strategy(i) = "direct_extract" /\ ~FieldRaises(i)) =>
                \A token \in Range(ExtractSectionNumbers(mapping_dict[i].value.ib_section)) :
                    \A p \in PagesOfNode(token) :
                        Contains(ContentOf(i), <<"[","C","o","n","t","e","n","t"," ","f","r","o","m"," ","p","a","g","e"," ">> \o IntToStr(p) \o <<"]">>)

\* C13 witness: section 5 has the pages 40 to 43, and the content of the field
\* that refers to it stops at page 42
C13_Witness ==
    /\ match_pc = "returned"
    /\ content = <<RowSafety>>
    /\ ib_index = IndexGood
    /\ PagesOfNode(<<"5">>) = {40, 41, 42, 43}
    /\ matched_content[1].value =
          <<"S","A","F","E","T","Y"," ","D","A","T","A"," ","[","C","o","n","t","e","n","t"," ","f","r","o","m"," ","p","a","g","e"," ","4","0","]"," ","[","C","o","n","t","e","n","t"," ","f","r","o","m"," ","p","a","g","e"," ","4","1","]"," ","[","C","o","n","t","e","n","t"," ","f","r","o","m"," ","p","a","g","e"," ","4","2","]">>

\* the i-th field is the one of the row RowIndication, and the index holds
\* the node "1.2" titled "Indication" with the pages 12 and 13
IndicationCase(i) ==
    /\ mapping_dict[i].key = <<"[","I","N","S","E","R","T","_","I","N","D","I","C","A","T","I","O","N","]">>
    /\ mapping_dict[i].value = RowRecord(RowIndication)
    /\ \E t \in 1..Len(ib_index.sections) :
          \E n \in 1..Len(ib_index.sections[t].value.subsections) :
              ib_index.sections[t].value.subsections[n]
                  = [key |-> <<"1",".","2">>, value |-> Node(<<"I","n","d","i","c","a","t","i","o","n">>, <<12, 13>>)]

\* C14 as stated: the row is classified direct_extract and the matched
\* content begins with "Indication\n\n", the title and a blank line.
C14_BeginsWithHeadingAndBlankLine ==
    Matching =>
        \A i \in 1..current :
            IndicationCase(i) =>
                /\ Strategy(i) = "direct_extract"
                /\ Prefix(ContentOf(i), Len(<<"I","n","d","i","c","a","t","i","o","n","\n","\n">>)) = <<"I","n","d","i","c","a","t","i","o","n","\n","\n">>

\* C14, amended: the row is classified direct_extract and the matched content
\* is the title, a single space, and the page contents joined by single
\* spaces: whitespace normalization is applied to the joined text, heading
\* included, so no line break is left in the content of a direct_extract
\* field.
C14_IndicationEndToEnd ==
    Matching =>
        \A i \in 1..current :
            /\ IndicationCase(i) =>
                  /\ Strategy(i) = "direct_extract"
                  /\ ContentOf(i)
                        = <<"I","n","d","i","c","a","t","i","o","n"," ","[","C","o","n","t","e","n","t"," ","f","r","o","m"," ","p","a","g","e"," ","1","2","]"," ","[","C","o","n","t","e","n","t"," ","f","r","o","m"," ","p","a","g","e"," ","1","3","]">>
            /\ (Strategy(i) = "direct_extract" /\ ~FieldRaises(i)) =>
                  Range(ContentOf(i)) \cap {"\n", "\t"} = {}

\* C14 witness: the row of the example, matched against the index of the
\* example
C14_Witness ==
    /\ match_pc = "returned"
    /\ content = <<RowIndication>>
    /\ ib_index = IndexGood
    /\ IndicationCase(1)
    /\ matched_content[1].value = <<"I","n","d","i","c","a","t","i","o","n"," ","[","C","o","n","t","e","n","t"," ","f","r","o","m"," ","p","a","g","e"," ","1","2","]"," ","[","C","o","n","t","e","n","t"," ","f","r","o","m"," ","p","a","g","e"," ","1","3","]">>

\* the notes of the i-th field, or the default phrase when they are empty
NotesOrPhrase(i) ==
    IF mapping_dict[i].value.notes = <<>> THEN <<"E","x","t","e","r","n","a","l"," ","d","a","t","a"," ","s","o","u","r","c","e"," ","r","e","q","u","i","r","e","d">>
    ELSE mapping_dict[i].value.notes

\* C15: the content of an unavailable field is
\* "[DATA NOT AVAILABLE IN IB - REQUIRES: <notes>]" with the field's notes, or
\* with the default phrase when the notes are empty, and its resolution makes
\* no section lookup, no page fetch and no gateway call.
C15_UnavailableNotesOrDefault ==
    Matching =>
        \A i \in 1..current :
            Strategy(i) = "unavailable" =>
                /\ ContentOf(i) = <<"[","D","A","T","A"," ","N","O","T"," ","A","V","A","I","L","A","B","L","E"," ","I","N"," ","I","B"," ","-"," ","R","E","Q","U","I","R","E","S",":"," ">>
                                     \o NotesOrPhrase(i) \o <<"]">>
                /\ field_trace[i] = [sections |-> 0, pages |-> 0, requests |-> 0, slept |-> 0]

\* C15 witness: an unavailable row with an empty notes cell; nothing stands
\* after "REQUIRES:"
C15_Witness ==
    /\ match_pc = "returned"
    /\ content = <<RowCases>>
    /\ Strategy(1) = "unavailable"
    /\ mapping_dict[1].value.notes = <<>>
    /\ matched_content[1].value = <<"[","D","A","T","A"," ","N","O","T"," ","A","V","A","I","L","A","B","L","E"," ","I","N"," ","I","B"," ","-"," ","R","E","Q","U","I","R","E","S",":"," ","]">>
    /\ field_trace[1] = [sections |-> 0, pages |-> 0, requests |-> 0, slept |-> 0]

\* C16: a synthesis_required field resolved with a gateway client, whose
\* section tokens resolve to nothing and whose page list is empty, has the
\* content "[No source content found in IB for AI extraction]", and no
\* request is sent to the gateway for it.
C16_NoSourceNoGatewayCall ==
    Matching =>
        \A i \in 1..current :
            (Strategy(i) = "synthesis_required" /\ client /\ ~FieldRaises(i)
               /\ NothingToExtract(i)) =>
                /\ ContentOf(i) = <<"[","N","o"," ","s","o","u","r","c","e"," ","c","o","n","t","e","n","t"," ","f","o","u","n","d"," ","i","n"," ","I","B"," ","f","o","r"," ","A","I"," ","e","x","t","r","a","c","t","i","o","n","]">>
                /\ field_trace[i].requests = 0
                /\ field_trace[i].slept = 0
                /\ \A n \in 1..Len(gateway_log) :
                      gateway_log[n].field_name # mapping_dict[i].key

\* C16 witness: with a client, a row that refers to the sections 8 and 9,
\* which the index does not have, and gives no pages
C16_Witness ==
    /\ match_pc = "returned"
    /\ client
    /\ content = <<RowOverview>>
    /\ ib_index = IndexGood
    /\ Strategy(1) = "synthesis_required"
    /\ field_trace[1] = [sections |-> 2, pages |-> 0, requests |-> 0, slept |-> 0]
    /\ matched_content[1].value = <<"[","N","o"," ","s","o","u","r","c","e"," ","c","o","n","t","e","n","t"," ","f","o","u","n","d"," ","i","n"," ","I","B"," ","f","o","r"," ","A","I"," ","e","x","t","r","a","c","t","i","o","n","]">>
    /\ gateway_log = <<>>

\* the combined source of the field with placeholder k: its content parts
\* joined by blank lines
CombinedSource(k) ==
    Join(SourceParts(ib_index, DictGet(mapping_dict, k), TRUE).val, <<"\n","\n">>)

TruncationMarker == <<"\n","\n","[","C","o","n","t","e","n","t"," ","t","r","u","n","c","a","t","e","d",".",".",".","]">>

EndsWithMarker(s) ==
    /\ Len(s) >= Len(TruncationMarker)
    /\ SubSeq(s, Len(s) - Len(TruncationMarker) + 1, Len(s)) = TruncationMarker

\* C17: the source content of every request sent to the gateway is the
\* combined source of the field when that has at most 10000 characters, and
\* otherwise its first 10000 characters followed by the truncation marker;
\* so it never has more than 10000 characters plus the marker, and it ends
\* with the marker only when the combined source was clipped.
C17_SourceTruncated ==
    \A n \in 1..Len(gateway_log) :
        LET source == gateway_log[n].ib_content
            combined == CombinedSource(gateway_log[n].field_name)
        IN /\ source = IF Len(combined) <= 10000 THEN combined
                       ELSE SubSeq(combined, 1, 10000) \o TruncationMarker
           /\ Len(source) <= 10000 + Len(TruncationMarker)
           /\ (EndsWithMarker(source) => Len(combined) > 10000)

\* C17 witness: a request whose combined source has 10001 characters
C17_Witness ==
    /\ match_pc = "returned"
    /\ content = <<RowLonger>>
    /\ ib_index = IndexLong
    /\ Len(gateway_log) = 1
    /\ Len(CombinedSource(gateway_log[1].field_name)) = 10001
    /\ Len(gateway_log[1].ib_content) = 10000 + Len(TruncationMarker)
    /\ EndsWithMarker(gateway_log[1].ib_content)

\* the gateway call of the i-th field failed: a request was sent and no
\* rate-limit delay followed
GatewayFailed(i) == field_trace[i].requests = 1 /\ field_trace[i].slept = 0

\* the first 500 characters of s
Excerpt(s) == SubSeq(s, 1, IF Len(s) < 500 THEN Len(s) ELSE 500)

\* C18: a field whose gateway call fails with the reason r has the content
\* "[AI extraction failed: r]" followed by the first 500 characters of its
\* unsynthesized source; at most one request is sent to the gateway for a
\* field in a run; and the fields after it are processed all the same.
C18_GatewayFailure ==
    Matching =>
        /\ \A i \in 1..current :
              /\ field_trace[i].requests <= 1
              /\ Cardinality({n \in 1..Len(gateway_log) :
                                 gateway_log[n].field_name = mapping_dict[i].key})
                    = field_trace[i].requests
              /\ GatewayFailed(i) =>
                    ContentOf(i) = <<"[","A","I"," ","e","x","t","r","a","c","t","i","o","n"," ","f","a","i","l","e","d",":"," ","R","a","t","e"," ","l","i","m","i","t"," ","e","x","c","e","e","d","e","d","]">>
                                      \o <<"\n","\n","R","a","w"," ","c","o","n","t","e","n","t",":","\n">>
                                      \o Excerpt(CombinedSource(mapping_dict[i].key))
                                      \o <<".",".",".">>
        /\ Len(field_trace) = current
        /\ (match_pc # "loop" => current = Len(mapping_dict))

\* C18 witness: the gateway call of the first field failed, and the second
\* field was extracted after it
C18_Witness ==
    /\ match_pc = "returned"
    /\ client
    /\ content = <<RowSummary, RowSafety>>
    /\ ib_index = IndexGood
    /\ GatewayFailed(1)
    /\ Prefix(matched_content[1].value, Len(<<"[","A","I"," ","e","x","t","r","a","c","t","i","o","n"," ","f","a","i","l","e","d",":"," ","R","a","t","e"," ","l","i","m","i","t"," ","e","x","c","e","e","d","e","d","]">>))
          = <<"[","A","I"," ","e","x","t","r","a","c","t","i","o","n"," ","f","a","i","l","e","d",":"," ","R","a","t","e"," ","l","i","m","i","t"," ","e","x","c","e","e","d","e","d","]">>
    /\ matched_content[2].value =
          <<"S","A","F","E","T","Y"," ","D","A","T","A"," ","[","C","o","n","t","e","n","t"," ","f","r","o","m"," ","p","a","g","e"," ","4","0","]"," ","[","C","o","n","t","e","n","t"," ","f","r","o","m"," ","p","a","g","e"," ","4","1","]"," ","[","C","o","n","t","e","n","t"," ","f","r","o","m"," ","p","a","g","e"," ","4","2","]">>

\* the place of the placeholder k in the mapping
PlaceOf(k) == CHOOSE i \in 1..Len(mapping_dict) : mapping_dict[i].key = k

\* the gateway call of the i-th field succeeded: a request was sent and the
\* completion is the field's content
GatewaySucceeded(i) ==
    /\ field_trace[i].requests = 1
    /\ ContentOf(i) = <<"S","y","n","t","h","e","s","i","z","e","d"," ","s","u","m","m","a","r","y",".">>

\* fields are resolved one at a time in the order of the mapping, and so are
\* the requests to the gateway
OneAtATimeInOrder ==
    /\ Len(field_trace) = current
    /\ \A m, n \in 1..Len(gateway_log) :
          m < n => PlaceOf(gateway_log[m].field_name) < PlaceOf(gateway_log[n].field_name)
    /\ \A n \in 1..Len(gateway_log) : PlaceOf(gateway_log[n].field_name) <= current

\* C19: fields are matched one at a time in mapping order, requests reach the
\* gateway in mapping order, and after every request that succeeds the
\* configured rate-limit delay (API_DELAY_SECONDS, 0.5 by default) is taken
\* before the next field is processed; no delay is taken otherwise.
C19_ConfiguredDelayAfterSuccess ==
    Matching =>
        /\ OneAtATimeInOrder
        /\ \A i \in 1..current :
              field_trace[i].slept = IF GatewaySucceeded(i) THEN api_delay_seconds ELSE 0

\* C19 witness: the delay is configured as 1.0, a gateway call has
\* succeeded, and the delay taken after it is 0.5
C19_Witness ==
    /\ match_pc = "returned"
    /\ api_delay_seconds = 2 * API_DELAY_SECONDS
    /\ client
    /\ content = <<RowLong>>
    /\ GatewaySucceeded(1)
    /\ field_trace[1].slept = RateLimitSleep
    /\ delays = RateLimitSleep

(***************************************************************************)
(* Claims about validate_extraction                                        *)
(***************************************************************************)
\* the content is itself a bracketed sentinel: it opens with "[" and closes
\* with "]"
BracketedSentinel(s) == Len(s) >= 2 /\ s[1] = "[" /\ s[Len(s)] = "]"

\* the warnings the four tests give for content s when the short test exempts
\* only bracketed sentinels
WarningsFor(s) ==
    (IF IsBlank(s) THEN << <<"C","o","n","t","e","n","t"," ","i","s"," ","e","m","p","t","y">> >> ELSE <<>>)
    \o (IF Contains(s, <<"[","E","R","R","O","R">>) \/ Contains(s, <<"[","D","A","T","A"," ","N","O","T"," ","A","V","A","I","L","A","B","L","E">>)
        THEN << <<"C","o","n","t","a","i","n","s"," ","e","r","r","o","r"," ","o","r"," ","u","n","a","v","a","i","l","a","b","l","e"," ","m","e","s","s","a","g","e">> >> ELSE <<>>)
    \o (IF Len(s) > MaxContentLength THEN << VeryLongWarning(Len(s)) >> ELSE <<>>)
    \o (IF Len(s) < MinContentLength /\ ~BracketedSentinel(s)
        THEN << <<"C","o","n","t","e","n","t"," ","v","e","r","y"," ","s","h","o","r","t">> >> ELSE <<>>)

\* C20: validate_extraction returns a result for every content; the result
\* carries one warning for each of: empty content, content containing an
\* error/unavailable sentinel, content longer than 20,000 characters, content
\* shorter than 10 characters that is not itself a bracketed sentinel; it is
\* invalid exactly for empty or whitespace-only content; the content and the
\* matcher are as they were before the call.
C20_ValidationWarnings ==
    validate_pc = "done" =>
        /\ validation.field = validate_field
        /\ validation.is_valid = ~IsBlank(validate_content)
        /\ validation.warnings = WarningsFor(validate_content)
        /\ validate_content \in ValidatedContents
        /\ match_pc = "idle" /\ matched_content = <<>> /\ gateway_log = <<>>

\* validate_extraction has returned for the short content "see [2]", which
\* is not a bracketed sentinel, and the result has no warning
C20_Witness ==
    /\ validate_pc = "done"
    /\ validate_content = <<"s","e","e"," ","[","2","]">>
    /\ Len(validate_content) < MinContentLength
    /\ ~BracketedSentinel(validate_content)
    /\ validation.is_valid
    /\ validation.warnings = <<>>

\* but for the short test, the result is as described: the other warnings,
\* the validity, and a short warning for every short content without "["
C20_OtherWarnings ==
    validate_pc = "done" =>
        /\ validation.is_valid = ~IsBlank(validate_content)
        /\ \A w \in { <<"C","o","n","t","e","n","t"," ","i","s"," ","e","m","p","t","y">>,
                     <<"C","o","n","t","a","i","n","s"," ","e","r","r","o","r"," ","o","r"," ","u","n","a","v","a","i","l","a","b","l","e"," ","m","e","s","s","a","g","e">>,
                     VeryLongWarning(Len(validate_content)) } :
              (\E i \in 1..Len(validation.warnings) : validation.warnings[i] = w)
              <=> (\E i \in 1..Len(WarningsFor(validate_content)) :
                      WarningsFor(validate_content)[i] = w)
        /\ (Len(validate_content) < MinContentLength
            /\ ~Contains(validate_content, <<"[">>)
            => validation.warnings[Len(validation.warnings)] = <<"C","o","n","t","e","n","t"," ","v","e","r","y"," ","s","h","o","r","t">>)

(***************************************************************************)
(* Claims about the index file and the section hierarchy                   *)
(***************************************************************************)
\* C21: match_all_fields on the index read back from the index file returns,
\* for every placeholder, the content it returns on the index the builder
\* made in memory, the mapping and the gateway's replies being the same
C21_RoundTrip ==
    index_pc = "matched" =>
        /\ Keys(loaded_matched) = Keys(created_matched)
        /\ \A k \in 1..Len(created_matched) :
               DictGet(loaded_matched, created_matched[k].key) = created_matched[k].value

\* both runs matched a field on a section whose title spans two lines, so
\* that the title went through the escapes of the file
C21_Witness ==
    /\ index_pc = "matched"
    /\ loaded_index # <<>>
    /\ \E k \in 1..Len(loaded_matched) :
           Contains(loaded_matched[k].value, <<"S","A","F","E","T","Y","\n","D","A","T","A">>)

\* the places of the dots of a dotted path
DotPlaces(path) == {i \in 1..Len(path) : path[i] = "."}

\* a path with its last dotted component removed
WithoutLastComponent(path) == SubSeq(path, 1, SetMax(DotPlaces(path)) - 1)

\* the first dotted component of a path
FirstComponent(path) == SubSeq(path, 1, SetMin(DotPlaces(path) \cup {Len(path) + 1}) - 1)

\* the index create_index returned in this run
IndexBuilt == index_pc # "idle" /\ index_pc # "create"

\* C26 as stated: the top-level nodes of a built index have single-component
\* paths, and the path of every child without its last component is the path
\* of the node the child is nested under
C26_ChildPrefixIsParent ==
    IndexBuilt =>
        \A i \in 1..Len(created_index.sections) :
            /\ DotPlaces(created_index.sections[i].key) = {}
            /\ \A k \in 1..Len(created_index.sections[i].value.subsections) :
                   LET child == created_index.sections[i].value.subsections[k].key
                   IN /\ DotPlaces(child) # {}
                      /\ WithoutLastComponent(child) = created_index.sections[i].key

\* C26 amended: the top-level nodes of a built index have single-component
\* paths, and every child has more than one component, the first of which is
\* the path of the node the child is nested under
C26_ChildUnderFirstComponent ==
    IndexBuilt =>
        \A i \in 1..Len(created_index.sections) :
            /\ DotPlaces(created_index.sections[i].key) = {}
            /\ \A k \in 1..Len(created_index.sections[i].value.subsections) :
                   LET child == created_index.sections[i].value.subsections[k].key
                   IN /\ DotPlaces(child) # {}
                      /\ FirstComponent(child) = created_index.sections[i].key

\* a built index in which section 5.5.1 is nested directly under section 5
C26_Witness ==
    /\ IndexBuilt
    /\ \E i \in 1..Len(created_index.sections) :
          /\ created_index.sections[i].key = <<"5">>
          /\ HasKey(created_index.sections[i].value.subsections, <<"5",".","5",".","1">>)

\* the dotted components of a path as integers
ComponentValues(path) ==
    [k \in 1..Len(Split(path, ".")) |-> ToInt(Split(path, ".")[k])]

\* the keys of a dict of nodes never step down in the order of their
\* component values
OrderedNumerically(nodes) ==
    \A i, j \in 1..Len(nodes) :
        i < j => ~TupleLess(ComponentValues(nodes[j].key), ComponentValues(nodes[i].key))

\* the section number is the key of a child somewhere in the hierarchy
KeptAsChild(sections, section_num) ==
    \E i \in 1..Len(sections) : HasKey(sections[i].value.subsections, section_num)

\* C27: the top-level nodes of a built index and the children of each come
\* in the order of their numeric components, and a detected section number
\* of more than one component is a child in the hierarchy exactly when its
\* first component was detected as a section, in whatever order the headers
\* were met
C27_NumericOrderAndKept ==
    IndexBuilt =>
        /\ OrderedNumerically(created_index.sections)
        /\ \A i \in 1..Len(created_index.sections) :
               OrderedNumerically(created_index.sections[i].value.subsections)
        /\ \A k \in 1..Len(indexer_sections) :
               DotPlaces(indexer_sections[k].key) # {} =>
                   (KeptAsChild(created_index.sections, indexer_sections[k].key)
                        <=> HasKey(indexer_sections, FirstComponent(indexer_sections[k].key)))

\* 1.10 and 1.9 were met before section 1 and in that order, and 3.1 with no
\* section 3: the index has 1.9 before 1.10 under section 1, and no 3.1
C27_Witness ==
    /\ IndexBuilt
    /\ Keys(indexer_sections) = <<<<"1",".","1","0">>, <<"1",".","9">>, <<"3",".","1">>, <<"1">>, <<"1",".","2">>>>
    /\ Len(created_index.sections) = 1
    /\ Keys(created_index.sections[1].value.subsections) = <<<<"1",".","2">>, <<"1",".","9">>, <<"1",".","1","0">>>>

(***************************************************************************)
(* Claims about the sources of a field and the inputs of stage 2           *)
(***************************************************************************)
\* the section tokens of the i-th field that resolve to content, in the
\* order of the section reference
ResolvedTokens(i) ==
    SelectSeq(ExtractSectionNumbers(mapping_dict[i].value.ib_section), Resolves)

\* the content of the resolved sections of the i-th field, each under the
\* heading ai_extract gives it when headed
ResolvedSections(i, headed) ==
    [k \in 1..Len(ResolvedTokens(i)) |->
        (IF headed THEN <<"#","#","#"," ","S","e","c","t","i","o","n"," ">> \o ResolvedTokens(i)[k] \o <<"\n">> ELSE <<>>)
        \o GetSectionContent(ib_index, ResolvedTokens(i)[k]).val]

\* the parts the claim gives the i-th field: the resolved sections if there
\* are any, and else the content of the field's own pages
PartsAsSpecified(i, headed) ==
    IF ResolvedTokens(i) # <<>> THEN ResolvedSections(i, headed)
    ELSE IF mapping_dict[i].value.ib_pages # <<>>
         THEN GetContentFromPages(mapping_dict[i].value.ib_pages)
         ELSE <<>>

\* C28: the field's own page list is used exactly when none of its section
\* tokens resolved to content. The content of a direct_extract field, and
\* the source of the request of a synthesis_required field, is made of the
\* resolved sections alone, in the order of the tokens, when there is one,
\* and of the content of the page list when there is none
C28_PagesOnlyWithoutSections ==
    Matching =>
        \A i \in 1..current :
            ~FieldRaises(i) =>
                /\ (Strategy(i) = "direct_extract" /\ PartsAsSpecified(i, FALSE) # <<>>) =>
                       ContentOf(i) = CleanText(Join(PartsAsSpecified(i, FALSE), <<"\n","\n">>))
                /\ (Strategy(i) = "synthesis_required" /\ client
                      /\ PartsAsSpecified(i, TRUE) # <<>>) =>
                       \E n \in 1..Len(gateway_log) :
                           /\ gateway_log[n].field_name = mapping_dict[i].key
                           /\ gateway_log[n].ib_content
                                 = Truncated(Join(PartsAsSpecified(i, TRUE), <<"\n","\n">>))

\* section 1.2 resolved for the first field, whose pages 12 to 14 were not
\* fetched, and the sections 1 and 5 for the second, whose request has them
\* in that order and nothing of its page 7
C28_Witness ==
    /\ match_pc = "returned"
    /\ content = <<RowIndication, RowSummary>>
    /\ ib_index = IndexGood
    /\ client
    /\ mapping_dict[1].value.ib_pages = <<12, 13, 14>>
    /\ matched_content[1].value
          = <<"I","n","d","i","c","a","t","i","o","n"," ","[","C","o","n","t","e","n","t"," ","f","r","o","m"," ","p","a","g","e"," ","1","2","]"," ","[","C","o","n","t","e","n","t"," ","f","r","o","m"," ","p","a","g","e"," ","1","3","]">>
    /\ ResolvedTokens(2) = << <<"1">>, <<"5">> >>
    /\ Len(gateway_log) = 1
    /\ Prefix(gateway_log[1].ib_content, 14) = <<"#","#","#"," ","S","e","c","t","i","o","n"," ","1","\n">>
    /\ Contains(gateway_log[1].ib_content, <<"\n","\n","#","#","#"," ","S","e","c","t","i","o","n"," ","5","\n">>)
    /\ ~Contains(gateway_log[1].ib_content, <<"[","C","o","n","t","e","n","t"," ","f","r","o","m"," ","p","a","g","e"," ","7","]">>)

\* C29: match_all_fields leaves the index and the mapping as they were:
\* no step of the run, whatever the strategy of the field and whether its
\* resolution or its gateway call fails, changes the index or a field's
\* mapping record
C29_IndexAndMappingUnchanged ==
    [][Matching => (ib_index' = ib_index /\ mapping_dict' = mapping_dict)]_vars

\* a run over a direct field whose section has more pages than are fetched,
\* a synthesis field and an unavailable field has returned, and the mapping
\* is still what the file gives and the index still has the four pages
C29_Witness ==
    /\ match_pc = "returned"
    /\ content = <<RowSafety, RowSummary, RowDeaths>>
    /\ client
    /\ mapping_dict = ParseMappingFile(content)
    /\ ib_index = IndexGood
    /\ field_trace[1].pages = 1
    /\ Len(gateway_log) = 1
    /\ Len(matched_content) = 3

(***************************************************************************)
(* Claims about the runs of the pipeline                                   *)
(***************************************************************************)
\* stage 1 of the run has completed
StageOneDone == Len(stages) >= 1 /\ stages[1].ok

\* the index is the one the builder gives for these page texts
Describes(index, pages_text) ==
    /\ index # <<>>
    /\ index.sections = CreateIndex(pages_text).sections
    /\ index.total_pages = Len(pages_text)

\* C22 as stated: the index file is reused only if it was built from the
\* brochure of this run and no rebuild is forced, and is rebuilt and written
\* again otherwise, so that after stage 1 the index of the pipeline, and the
\* index file, describe the brochure of the run
C22_IndexOfCurrentDocument ==
    (StageOneDone /\ ib_pdf.readable) =>
        /\ Describes(pipeline.ib_index, ib_pdf.data)
        /\ Describes(LoadIndex(index_json.data), ib_pdf.data)
        /\ (config.force_reindex => "index" \in written)

\* the second run is on brochure B without --force-reindex, and its stage 2
\* has matched on the index of brochure A, which the first run wrote
C22_Witness ==
    /\ run_no = 2
    /\ ~config.force_reindex
    /\ ib_pdf = File(PdfB)
    /\ pipe_pc = "stage3"
    /\ "index" \notin written
    /\ Describes(pipeline.ib_index, PdfA)
    /\ ~Describes(pipeline.ib_index, PdfB)
    /\ pipeline.matched_content # <<>>

(***************************************************************************)
(* Claims about the run of the three stages and the exit code              *)
(***************************************************************************)
\* the order in which run_full_pipeline calls the stages
StageOrder == <<"index", "match", "populate">>

\* the stages logged so far are the first ones of the order, one each
InOrder ==
    /\ Len(stages) <= Len(StageOrder)
    /\ \A i \in 1..Len(stages) : stages[i].stage = StageOrder[i]

\* every stage but the last one logged has completed without failure
EachAfterSuccess == \A i \in 1..Len(stages) : i < Len(stages) => stages[i].ok

AllThreeSucceeded ==
    /\ Len(stages) = Len(StageOrder)
    /\ \A i \in 1..Len(stages) : stages[i].ok

AStageFailed == \E i \in 1..Len(stages) : ~stages[i].ok

\* C23: the stages run in the order index, match, populate, each only after
\* the one before has completed without failure (so no stage runs after a
\* failed one); the process exits with 0 exactly when all three stages have
\* succeeded, and with 1 when a stage has failed
C23_StagesInOrderAndExitCode ==
    /\ InOrder
    /\ EachAfterSuccess
    /\ (pipe_pc = "exited" =>
           /\ (exit_code = 0 <=> AllThreeSucceeded)
           /\ (AStageFailed => exit_code = 1)
           /\ exit_code \in {0, 1})

\* a run has exited with 1 after stage 2 failed: stage 1 had succeeded and
\* stage 3 was not run
C23_Witness ==
    /\ pipe_pc = "exited"
    /\ exit_code = 1
    /\ Len(stages) = 2
    /\ stages[1] = [stage |-> "index", ok |-> TRUE]
    /\ stages[2] = [stage |-> "match", ok |-> FALSE]
    /\ populator = <<>>
    /\ "matched_content" \notin written

\* a run has exited with 0 after the three stages
C23_WitnessSuccess ==
    /\ pipe_pc = "exited"
    /\ exit_code = 0
    /\ AllThreeSucceeded
    /\ written = {"index", "matched_content", "output", "report"}

\* one of the three required inputs of the run is not there
ARequiredInputMissing == ~ib_pdf.exists \/ ~template_docx.exists \/ ~mapping_md.exists

\* C24: a run with a missing source PDF, template or mapping file ends before
\* any stage runs: once main() has looked at the inputs the process has
\* exited with 1, no stage was started, no index was built or loaded, no
\* field was matched, no request went to the gateway and nothing was written
C24_MissingInputAborts ==
    (ARequiredInputMissing /\ pipe_pc # "main") =>
        /\ pipe_pc = "exited"
        /\ exit_code = 1
        /\ stages = <<>>
        /\ pipeline = NewPipeline
        /\ populator = <<>>
        /\ gateway.requests = 0
        /\ written = {}

\* a second run on a missing PDF has exited with 1: the index file of the
\* first run is there and was not loaded
C24_Witness ==
    /\ run_no = 2
    /\ pipe_pc = "exited"
    /\ exit_code = 1
    /\ ~ib_pdf.exists
    /\ index_json.exists
    /\ ~config.force_reindex
    /\ pipeline.ib_index = <<>>
    /\ template_docx.exists
    /\ mapping_md.exists

(***************************************************************************)
(* Claims about stage 3: population and the report                         *)
(***************************************************************************)
\* the three inputs of the run are there and can be read
InputsUsable == ib_pdf.readable /\ template_docx.readable /\ mapping_md.readable

\* stage 3 of the run has been made
Populated == populator # <<>>

RaisedSentinel == <<"[","E","R","R","O","R"," ","E","X","T","R","A","C","T","I","N","G"," ","C","O","N","T","E","N","T">>
GatewaySentinel == <<"[","A","I"," ","e","x","t","r","a","c","t","i","o","n"," ","f","a","i","l","e","d">>

\* the content stage 2 stores for a field whose resolution failed: the field
\* raised, or its gateway call failed
FailedToResolve(content_) ==
    \/ Prefix(content_, Len(RaisedSentinel)) = RaisedSentinel
    \/ Prefix(content_, Len(GatewaySentinel)) = GatewaySentinel

\* the i-th matched field failed to resolve, has no content, or has a
\* placeholder the template does not hold
ToBeSkipped(i) ==
    \/ FailedToResolve(pipeline.matched_content[i].value)
    \/ pipeline.matched_content[i].value = <<>>
    \/ pipeline.matched_content[i].key \notin populator.placeholders_found

\* the report lists the i-th matched field as populated
ListedPopulated(i) ==
    \E j \in 1..Len(populator.report.populated) :
        populator.report.populated[j] = pipeline.matched_content[i].key

\* a run on usable inputs goes through the three stages and writes the
\* matched content, the document and the report
RunCompletes ==
    (InputsUsable /\ pipe_pc = "exited") =>
        /\ AllThreeSucceeded
        /\ {"matched_content", "output", "report"} \subseteq written
        /\ Populated

\* C25: a run on usable inputs completes stages 2 and 3 and makes the
\* report; a field that failed to resolve or whose placeholder is not in the
\* template is skipped in the population and not reported as populated, and
\* every other field is populated
C25_FailedFieldsSkippedOthersPopulated ==
    /\ RunCompletes
    /\ Populated =>
          \A i \in 1..Len(pipeline.matched_content) :
              IF ToBeSkipped(i)
              THEN populator.outcomes[i] # "replaced" /\ ~ListedPopulated(i)
              ELSE populator.outcomes[i] = "replaced"

\* what the population does: a field without content or without its
\* placeholder in the template is skipped, every other field is substituted,
\* whatever its content says
SkipsOnlyEmptyOrAbsent ==
    Populated =>
        \A i \in 1..Len(pipeline.matched_content) :
            populator.outcomes[i] = "replaced"
                <=> /\ pipeline.matched_content[i].value # <<>>
                    /\ pipeline.matched_content[i].key \in populator.placeholders_found

\* the field of a failed gateway call has been substituted into the document
\* and is in the report's list of populated fields
C25_Witness ==
    /\ pipe_pc = "done"
    /\ \E i \in 1..Len(pipeline.matched_content) :
          /\ FailedToResolve(pipeline.matched_content[i].value)
          /\ populator.outcomes[i] = "replaced"
          /\ ListedPopulated(i)
          /\ \E p \in 1..Len(populator.doc) : Contains(populator.doc[p], GatewaySentinel)

\* the four lists of the report
ReportListNames == {"populated", "empty", "not_in_ib", "errors"}

\* the places of one list of the report at which a placeholder stands
PlacesIn(list, placeholder) ==
    {j \in 1..Len(populator.report[list]) : populator.report[list][j] = placeholder}

\* the number of times a placeholder is listed in the report, over the four
\* lists
TimesListed(placeholder) ==
    Cardinality({<<list, j>> \in ReportListNames \X (1..Len(pipeline.matched_content)) :
                    j \in PlacesIn(list, placeholder)})

\* C30: the report partitions the matched content: every matched placeholder
\* is in exactly one of the lists populated, empty, not_in_ib, errors, the
\* four counts sum to the number of matched fields, and the populated and
\* skipped counts of populate_all_fields sum to the number of matched fields
C30_ReportPartitionsMatchedContent ==
    Populated =>
        /\ \A i \in 1..Len(pipeline.matched_content) :
               TimesListed(pipeline.matched_content[i].key) = 1
        /\ Len(populator.report.populated) + Len(populator.report.empty)
             + Len(populator.report.not_in_ib) + Len(populator.report.errors)
               = Len(pipeline.matched_content)
        /\ populator.populated + populator.skipped = Len(pipeline.matched_content)

\* a report with three lists in use, after a population that has substituted
\* some fields and skipped others
C30_Witness ==
    /\ pipe_pc = "done"
    /\ Len(pipeline.matched_content) = 4
    /\ Len(populator.report.populated) = 1
    /\ Len(populator.report.not_in_ib) = 2
    /\ Len(populator.report.errors) = 1
    /\ populator.populated = 2
    /\ populator.skipped = 2

====
